---- MODULE Spec2Model ----
(***************************************************************************)
(* Position lifecycle and order management of the futures trading bot:     *)
(* RiskManager (risk.py), the Backtester bar loop (backtester_full.py) and *)
(* the LiveRunner closed-candle handler (live_runner.py).                  *)
(*                                                                         *)
(* Numbers.  The program computes in floating point; the model computes    *)
(* the same expressions exactly, over integers:                            *)
(*   - prices, ATR values and stop levels are whole quote units (USDT);    *)
(*   - a quantity is counted in half lot steps, QTY_STEP / 2, so that      *)
(*     qty * 0.5 of a step-quantized quantity is exact;                    *)
(*   - a notional is price * quantity, i.e. counted in 1/QU USDT;          *)
(*   - a balance is a Money record [u, r] standing for                     *)
(*     (u + r / FeeDen) / QU USDT: fees are notional * FeeNum / FeeDen.    *)
(* One floating-point effect is kept, because it changes a result by a     *)
(* whole lot step: in round_down, value / step is a binary division by     *)
(* 0.0001, and for a value that is a whole number k of steps the quotient  *)
(* can come out just below k (0.6 / 0.0001 = 5999.999999999999), so that   *)
(* math.floor gives k - 1.  Which k are affected depends on their binary   *)
(* expansion; the model leaves it open as the input "short" of the step    *)
(* that calls the sizer.                                                   *)
(***************************************************************************)
EXTENDS Integers, Sequences, FiniteSets, TLC

\* ---------------------------------------------------------------- constants

\* risk.py:18  qty_step = 0.0001 = 1 / StepInv
StepInv == 10000
\* risk.py:16  min_notional = 5.0 USDT
MIN_NOTIONAL_USDT == 5
\* config.py:72  FUTURES_FEE_RATE = 0.0004 = FeeNum / FeeDen
FeeNum == 4
FeeDen == 10000
\* config.py:75  RISK_PER_TRADE = 0.01 = RiskNum / RiskDen
RiskNum == 1
RiskDen == 100
\* config.py:79
FUTURES_LEVERAGE_DEFAULT == 5
\* config.py:32
INITIAL_BALANCE_USDT == 5000
\* config.py:122, 126, 132
ATR_SL_MULT == 5
ATR_TP_MULT_1 == 10
ATR_TS_MULT == 5
\* config.py:117, 166, 154
MAX_OPEN_POSITIONS == 3
MTF_MAX_OPEN_POSITIONS == 3
MTF_MAX_BARS_IN_POSITION == 96
\* config.py:238, 241, 244: the defaults of the environment variables
HARD_MAX_DRAWDOWN_PCT == 0
MAX_TRADES_PER_HOUR == 20
MIN_REOPEN_INTERVAL_SEC == 300

\* quantity units per contract, and notional units per USDT
QU == 2 * StepInv

\* an optional value (Python's None or a value x) is <<>> or <<x>>
None == <<>>

Some(x) == <<x>>

Get(o) == o[1]

\* BinanceWSManager.__init__: reconnect_delay, max_reconnect_delay, in seconds
RECONNECT_DELAY == 3
MAX_RECONNECT_DELAY == 30

\* ---------------------------------------------------------------- exact arithmetic

Abs(x) == IF x < 0 THEN -x ELSE x

Min2(a, b) == IF a <= b THEN a ELSE b

Max2(a, b) == IF a >= b THEN a ELSE b

RECURSIVE GCD(_, _)
GCD(a, b) == IF b = 0 THEN Abs(a) ELSE GCD(b, a % Abs(b))

\* Money: (u + r / FeeDen) / QU USDT, 0 <= r < FeeDen
MNorm(u, r) == [u |-> u + (r \div FeeDen), r |-> r % FeeDen]

Usdt(x) == [u |-> x * QU, r |-> 0]

MInt(n) == [u |-> n, r |-> 0]

MAdd(a, b) == MNorm(a.u + b.u, a.r + b.r)

MNeg(a) == MNorm(-a.u, -a.r)

MSub(a, b) == MAdd(a, MNeg(b))

MMulInt(a, n) == MNorm(a.u * n, a.r * n)

MLess(a, b) == a.u < b.u \/ (a.u = b.u /\ a.r < b.r)

MLeq(a, b) == a = b \/ MLess(a, b)

MZero == MInt(0)

\* a real number m / d, d > 0, with m a Money value
Val(m) == [m |-> m, d |-> 1]

\* v * n / dd for integers n and dd > 0
VMul(v, n, dd) ==
    LET den == v.d * dd
        g == GCD(n, den)
    IN  [m |-> MMulInt(v.m, n \div g), d |-> den \div g]

\* floor(v) and the remainder v - floor(v), the latter as a Money numerator over v.d
VFloor(v) == v.m.u \div v.d

VRem(v) == [u |-> v.m.u % v.d, r |-> v.m.r]

VLess(a, b) ==
    \/ VFloor(a) < VFloor(b)
    \/ /\ VFloor(a) = VFloor(b)
       /\ MLess(MMulInt(VRem(a), b.d), MMulInt(VRem(b), a.d))

VLeq(a, b) == ~VLess(b, a)

VMin(a, b) == IF VLeq(a, b) THEN a ELSE b

VMax(a, b) == IF VLess(a, b) THEN b ELSE a

VLeq0(v) == MLeq(v.m, MZero)

\* ---------------------------------------------------------------- utils.py, risk.py

\* round_down(value / price, qty_step) for value = v (in 1/QU USDT): the whole
\* number of lot steps in v / price; math.floor(value / step), the "* step"
\* being the unit of the result.  short: the float quotient of a whole number
\* of steps falls just below it
round_down(v, price, short) ==
    LET q == VMul(v, 1, 2 * price)
    IN  IF short /\ VRem(q) = MZero THEN VFloor(q) - 1 ELSE VFloor(q)

ZeroSize == [notional |-> 0, qty |-> 0]

\* RiskManager.calc_size(notional, price) -> (notional, qty)
calc_size(notional, price, short) ==
    IF price <= 0 \/ VLeq0(notional) THEN ZeroSize
    ELSE LET n1 == VMax(notional, Val(Usdt(MIN_NOTIONAL_USDT)))
             steps == round_down(n1, price, short)
             qty == 2 * steps
             n2 == qty * price
         IN  IF qty <= 0 THEN ZeroSize
             ELSE IF n2 < MIN_NOTIONAL_USDT * QU THEN ZeroSize
             ELSE [notional |-> n2, qty |-> qty]

\* RiskManager.futures_notional_by_leverage(balance_usdt, leverage)
futures_notional_by_leverage(balance_usdt, leverage) ==
    IF VLeq0(balance_usdt) \/ leverage <= 0 THEN Val(MZero)
    ELSE VMul(balance_usdt, leverage, 1)

\* min(notional_by_risk, max_notional_by_lev) of calc_futures_size_from_risk,
\* for inputs that passed its guard; stop_distance_pct = sdpN / sdpD,
\* risk_per_trade = riskN / riskD
desired_notional(equity, sdpN, sdpD, riskN, riskD, leverage) ==
    LET risk_amount == VMul(Val(equity), riskN, riskD)
        notional_by_risk == VMul(risk_amount, 100 * sdpD, sdpN)
        max_notional_by_lev == futures_notional_by_leverage(Val(equity), leverage)
    IN  VMin(notional_by_risk, max_notional_by_lev)

\* RiskManager.calc_futures_size_from_risk
calc_futures_size_from_risk(equity, price, sdpN, sdpD, riskN, riskD, leverage, short) ==
    IF \/ MLeq(equity, MZero)
       \/ price <= 0
       \/ sdpN <= 0
       \/ riskN <= 0
       \/ leverage <= 0
    THEN ZeroSize
    ELSE calc_size(desired_notional(equity, sdpN, sdpD, riskN, riskD, leverage), price, short)

\* ---------------------------------------------------------------- state

VARIABLES
    sizing,     \* the last call of calc_futures_size_from_risk: inputs and result
    symbols,    \* the instruments, sorted (Backtester.run: sorted(data.keys()))
    cfg,        \* the configuration values read through getattr(cfg, ...)
    positions,  \* the ledger: instrument -> PositionState, flat instruments absent
    balance,    \* Backtester.run: balance
    equity,     \* the equity computed last
    i,          \* the index of the next bar / the number of candles seen
    bar,        \* per instrument, the last delivered row: close, ATR, signal
    pc,         \* where the driver is
    trace,      \* what the last tick did: its closes, entries and alerts, in order
    state,      \* StateManager.data: the persisted positions, balance, peak, PnL
    trading_disabled,   \* LiveRunner._trading_disabled
    trade_timestamps,   \* LiveRunner._trade_timestamps
    last_open_time,     \* LiveRunner._last_open_time
    pending,    \* the broker call the candle handler awaits, if any
    exch,       \* the exchange: instrument -> signed positionAmt
    hb,         \* the heartbeat task: where it is and what it fetched
    rpc,        \* the exchange call a retry wrapper is making, if any
    twin,       \* the live runner's ledger while both drivers are fed the same ticks
    disk,       \* the state file, its temporary file and the save in progress
    sd,         \* the event loop of main(), its three tasks and what they hold open
    stream,     \* BinanceWSManager._run_loop: where it is, its backoff, what it dispatched
    probe       \* the last call of a function examined on its own: inputs and result

btVars == <<positions, balance, equity, i, bar, trace>>

liveVars == <<state, trading_disabled, trade_timestamps, last_open_time, pending, exch, hb>>

sysVars == <<rpc, twin, disk, sd, stream, probe>>

vars == <<sizing, symbols, cfg, pc, btVars, liveVars, sysVars>>

\* ---------------------------------------------------------------- position.py

\* PositionState as constructed at entry (backtester_full.py:258, live_runner.py:492)
PositionState(sym, entry_price, qty, notional, side, open_time, stop_loss, tp1) ==
    [symbol |-> sym, entry_price |-> entry_price, qty |-> qty, notional |-> notional,
     side |-> side, mode |-> "futures", open_time |-> open_time,
     stop_loss |-> Some(stop_loss), tp1 |-> Some(tp1), tp2 |-> None,
     peak_price |-> Some(entry_price), trailing_stop |-> None, pyramid_level |-> 0]

\* a value of the state file: a JSON number, string or null
JNum(n) == [t |-> "num", n |-> n, s |-> ""]

JStr(s) == [t |-> "str", n |-> 0, s |-> s]

JNull == [t |-> "null", n |-> 0, s |-> ""]

\* an Optional[float] field as json.dump writes it and as json.load reads it
JOpt(o) == IF o = None THEN JNull ELSE JNum(Get(o))

JOptVal(v) == IF v.t = "null" THEN None ELSE Some(v.n)

\* PositionState.to_dict, asdict(self), as it stands in the state file
to_dict(pos) ==
    [symbol |-> JStr(pos.symbol), entry_price |-> JNum(pos.entry_price),
     qty |-> JNum(pos.qty), notional |-> JNum(pos.notional), side |-> JStr(pos.side),
     mode |-> JStr(pos.mode), open_time |-> JNum(pos.open_time),
     stop_loss |-> JOpt(pos.stop_loss), tp1 |-> JOpt(pos.tp1), tp2 |-> JOpt(pos.tp2),
     peak_price |-> JOpt(pos.peak_price), trailing_stop |-> JOpt(pos.trailing_stop),
     pyramid_level |-> JNum(pos.pyramid_level)]

\* whether float(v) and int(v) return
Numeric(v) == v.t = "num"

\* from_dict reading the three required keys alone, every other field at its
\* default
from_dict_defaults(d, now) ==
    IF ~({"symbol", "entry_price", "qty"} \subseteq DOMAIN d) THEN None
    ELSE IF ~Numeric(d.entry_price) \/ ~Numeric(d.qty) THEN None
    ELSE Some([symbol |-> d.symbol.s, entry_price |-> d.entry_price.n, qty |-> d.qty.n,
               notional |-> d.entry_price.n * d.qty.n, side |-> "short", mode |-> "futures",
               open_time |-> now, stop_loss |-> None, tp1 |-> None, tp2 |-> None,
               peak_price |-> None, trailing_stop |-> None, pyramid_level |-> 0])

\* PositionState.from_dict at time now: None when it raises (a required key
\* is missing, float() or int() is given null or a string)
from_dict(d, now) ==
    IF ~({"symbol", "entry_price", "qty"} \subseteq DOMAIN d) THEN None
    ELSE IF ~Numeric(d.entry_price) \/ ~Numeric(d.qty) THEN None
    ELSE IF "notional" \in DOMAIN d /\ ~Numeric(d.notional) THEN None
    ELSE IF "pyramid_level" \in DOMAIN d /\ ~Numeric(d.pyramid_level) THEN None
    ELSE Some([symbol |-> d.symbol.s,
               entry_price |-> d.entry_price.n,
               qty |-> d.qty.n,
               notional |-> IF "notional" \in DOMAIN d THEN d.notional.n
                            ELSE d.entry_price.n * d.qty.n,
               side |-> IF "side" \in DOMAIN d THEN d.side.s ELSE "short",
               mode |-> IF "mode" \in DOMAIN d THEN d.mode.s ELSE "futures",
               open_time |-> IF "open_time" \in DOMAIN d THEN d.open_time.n ELSE now,
               stop_loss |-> IF "stop_loss" \in DOMAIN d THEN JOptVal(d.stop_loss) ELSE None,
               tp1 |-> IF "tp1" \in DOMAIN d THEN JOptVal(d.tp1) ELSE None,
               tp2 |-> IF "tp2" \in DOMAIN d THEN JOptVal(d.tp2) ELSE None,
               peak_price |-> IF "peak_price" \in DOMAIN d THEN JOptVal(d.peak_price)
                              ELSE None,
               trailing_stop |-> IF "trailing_stop" \in DOMAIN d
                                 THEN JOptVal(d.trailing_stop) ELSE None,
               pyramid_level |-> IF "pyramid_level" \in DOMAIN d THEN d.pyramid_level.n
                                 ELSE 0])

\* StateManager.get_positions on the "positions" map of the state file: an
\* entry from_dict raises on is logged and left out
get_positions(data, now) ==
    [s \in {t \in DOMAIN data : from_dict(data[t], now) # None} |->
        Get(from_dict(data[s], now))]

\* the ledger without / with an instrument
Without(ps, sym) == [s \in DOMAIN ps \ {sym} |-> ps[s]]

With(ps, sym, pos) == [s \in DOMAIN ps \cup {sym} |-> IF s = sym THEN pos ELSE ps[s]]

\* one entry of trace
Event(sym, rule, pos, price, qty, bal0, bal1, after) ==
    [sym |-> sym, rule |-> rule, side |-> pos.side, entry |-> pos.entry_price,
     exit |-> price, qty |-> qty, before |-> bal0, after |-> bal1,
     pos0 |-> Some(pos), pos1 |-> after]

\* ---------------------------------------------------------------- backtester_full.py

\* the warm-up of Backtester.run: min(200, max_len - 1) with max_len > 200
Warmup == 200

\* bt_fee charging the exit leg alone
bt_fee_exit_leg(notional_entry, notional_exit) ==
    MNorm(0, notional_exit * FeeNum)

\* fee = (notional_entry + notional_exit) * self.fee_rate
bt_fee(notional_entry, notional_exit) ==
    MNorm(0, (notional_entry + notional_exit) * FeeNum)

\* the floating or realized PnL of qty at price
bt_pnl(pos, price, qty) ==
    IF pos.side = "long" THEN (price - pos.entry_price) * qty
    ELSE (pos.entry_price - price) * qty

\* Backtester._close_position -> the new balance
bt_close_position(bal, pos, price) ==
    IF pos.qty <= 0 THEN bal
    ELSE LET pnl == bt_pnl(pos, price, pos.qty)
             fee == bt_fee(pos.entry_price * pos.qty, price * pos.qty)
         IN  MAdd(bal, MSub(MInt(pnl), fee))

\* Backtester._close_fraction with fraction = fN / fD -> the new balance and
\* the position as it is left
bt_close_fraction(bal, pos, price, fN, fD) ==
    IF fN <= 0 \/ fN >= fD \/ pos.qty <= 0 THEN [balance |-> bal, pos |-> pos]
    ELSE LET qty_close == (pos.qty * fN) \div fD
             pnl == bt_pnl(pos, price, qty_close)
             fee == bt_fee(pos.entry_price * qty_close, price * qty_close)
             q1 == IF pos.qty - qty_close < 0 THEN 0 ELSE pos.qty - qty_close
         IN  IF qty_close <= 0 THEN [balance |-> bal, pos |-> pos]
             ELSE [balance |-> MAdd(bal, MSub(MInt(pnl), fee)),
                   pos |-> [pos EXCEPT !.qty = q1, !.notional = pos.entry_price * q1]]

\* 1) the hard stop-loss test
bt_stop_hit(pos, price) ==
    /\ pos.stop_loss # None
    /\ \/ pos.side = "long" /\ price <= Get(pos.stop_loss)
       \/ pos.side = "short" /\ price >= Get(pos.stop_loss)

\* 2) the first target test
bt_tp1_hit(pos, price) ==
    /\ pos.tp1 # None
    /\ \/ pos.side = "long" /\ price >= Get(pos.tp1)
       \/ pos.side = "short" /\ price <= Get(pos.tp1)

\* the trailing level proposed at price and ATR
bt_new_ts(pos, price, atr) ==
    IF pos.side = "long" THEN price - ATR_TS_MULT * atr ELSE price + ATR_TS_MULT * atr

\* whether new_ts tightens the stored trailing stop of pos
bt_tighter(pos, new_ts) ==
    IF pos.side = "long" THEN new_ts > Get(pos.trailing_stop)
    ELSE new_ts < Get(pos.trailing_stop)

\* 2) what the first target does to the position, the partial close apart
\* bt_tp1_levels with the stop moved away from the entry by its distance
\* instead of onto the entry
bt_tp1_levels_widened(pos, price, atr) ==
    LET new_ts == bt_new_ts(pos, price, atr)
    IN  [pos EXCEPT !.stop_loss = Some(2 * Get(pos.stop_loss) - pos.entry_price),
                    !.trailing_stop = IF pos.trailing_stop = None \/ bt_tighter(pos, new_ts)
                                      THEN Some(new_ts) ELSE pos.trailing_stop,
                    !.tp1 = None]

bt_tp1_levels(pos, price, atr) ==
    LET new_ts == bt_new_ts(pos, price, atr)
    IN  [pos EXCEPT !.stop_loss = Some(pos.entry_price),
                    !.trailing_stop = IF pos.trailing_stop = None \/ bt_tighter(pos, new_ts)
                                      THEN Some(new_ts) ELSE pos.trailing_stop,
                    !.tp1 = None]

\* bt_trail without the ratchet: the proposed level is stored whatever it is
bt_trail_loose(pos, price, atr) ==
    IF pos.trailing_stop = None THEN pos
    ELSE [pos EXCEPT !.trailing_stop = Some(bt_new_ts(pos, price, atr))]

\* 3) the trailing stop ratchet
bt_trail(pos, price, atr) ==
    IF pos.trailing_stop = None THEN pos
    ELSE LET new_ts == bt_new_ts(pos, price, atr)
         IN  IF bt_tighter(pos, new_ts) THEN [pos EXCEPT !.trailing_stop = Some(new_ts)]
             ELSE pos

bt_trail_hit(pos, price) ==
    /\ pos.trailing_stop # None
    /\ \/ pos.side = "long" /\ price <= Get(pos.trailing_stop)
       \/ pos.side = "short" /\ price >= Get(pos.trailing_stop)

\* 3.5) the time-stop
bt_time_stop(pos, idx, c) ==
    /\ c.mtf_max_bars > 0
    /\ c.strategy_name \in {"mtf_breakout", "mtf"}
    /\ idx - pos.open_time >= c.mtf_max_bars

\* 4) the reversal signal
bt_reverse(pos, sig) ==
    \/ pos.side = "long" /\ sig = "sell"
    \/ pos.side = "short" /\ sig = "buy"

\* a full close of sym in the loop: balance = self._close_position(...); positions[sym] = None
bt_closed(st, sym, pos, price, rule) ==
    LET bal1 == bt_close_position(st.balance, pos, price)
    IN  [positions |-> Without(st.positions, sym),
         balance |-> bal1,
         trace |-> Append(st.trace, Event(sym, rule, pos, price, pos.qty, st.balance, bal1, None))]

\* 2) the first target: partial close, breakeven stop, trailing stop, tp1 cleared
bt_tp1(st, sym, pos, price, atr) ==
    IF ~bt_tp1_hit(pos, price) THEN st
    ELSE LET cf == bt_close_fraction(st.balance, pos, price, 1, 2)
             pos1 == bt_tp1_levels(cf.pos, price, atr)
         IN  [positions |-> With(st.positions, sym, pos1),
              balance |-> cf.balance,
              trace |-> Append(st.trace, Event(sym, "tp1", pos, price, pos.qty - cf.pos.qty,
                                               st.balance, cf.balance, Some(pos1)))]

\* bt_manage with the reversal signal tested before the stop-loss
bt_manage_reversal_first(st, sym, b, idx, c) ==
    IF sym \notin DOMAIN st.positions THEN st
    ELSE IF b.atr <= 0 THEN st
    ELSE LET pos == st.positions[sym]
         IN  IF bt_reverse(pos, b.sig) THEN bt_closed(st, sym, pos, b.price, "reverse_signal")
             ELSE IF bt_stop_hit(pos, b.price) THEN bt_closed(st, sym, pos, b.price, "stop_loss")
             ELSE LET s1 == bt_tp1(st, sym, pos, b.price, b.atr)
                      pos2 == bt_trail(s1.positions[sym], b.price, b.atr)
                      s2 == [s1 EXCEPT !.positions = With(s1.positions, sym, pos2)]
                  IN  IF bt_trail_hit(pos2, b.price)
                      THEN bt_closed(s2, sym, pos2, b.price, "trailing_stop")
                      ELSE IF bt_time_stop(pos2, idx, c)
                      THEN bt_closed(s2, sym, pos2, b.price, "time_stop")
                      ELSE s2

\* the body of the position-management loop for one instrument (lines 108-189)
bt_manage(st, sym, b, idx, c) ==
    IF sym \notin DOMAIN st.positions THEN st
    ELSE IF b.atr <= 0 THEN st
    ELSE LET pos == st.positions[sym]
         IN  IF bt_stop_hit(pos, b.price) THEN bt_closed(st, sym, pos, b.price, "stop_loss")
             ELSE LET s1 == bt_tp1(st, sym, pos, b.price, b.atr)
                      pos2 == bt_trail(s1.positions[sym], b.price, b.atr)
                      s2 == [s1 EXCEPT !.positions = With(s1.positions, sym, pos2)]
                  IN  IF bt_trail_hit(pos2, b.price)
                      THEN bt_closed(s2, sym, pos2, b.price, "trailing_stop")
                      ELSE IF bt_time_stop(pos2, idx, c)
                      THEN bt_closed(s2, sym, pos2, b.price, "time_stop")
                      ELSE IF bt_reverse(pos2, b.sig)
                      THEN bt_closed(s2, sym, pos2, b.price, "reverse_signal")
                      ELSE s2

\* the position-management loop over positions.items(), from the k-th instrument on
RECURSIVE bt_manage_all(_, _, _, _, _, _)
bt_manage_all(st, syms, k, bars, idx, c) ==
    IF k > Len(syms) THEN st
    ELSE bt_manage_all(bt_manage(st, syms[k], bars[syms[k]], idx, c), syms, k + 1, bars, idx, c)

\* equity = balance + the floating PnL of the open positions (lines 90-101, 192-203)
RECURSIVE bt_equity(_, _, _, _, _)
bt_equity(bal, ps, syms, k, bars) ==
    IF k > Len(syms) THEN bal
    ELSE LET sym == syms[k]
             rest == bt_equity(bal, ps, syms, k + 1, bars)
         IN  IF sym \in DOMAIN ps
             THEN MAdd(rest, MInt(bt_pnl(ps[sym], bars[sym].price, ps[sym].qty)))
             ELSE rest

\* the cap used for the gate before the entry loop (lines 209-216)
bt_eff_max_positions(c) ==
    IF c.strategy_name \in {"mtf_breakout", "mtf"}
    THEN Min2(c.max_positions, c.mtf_max_pos)
    ELSE c.max_positions

\* the position built for an entry signal (lines 234-272), None when the entry is skipped
bt_entry(sym, b, eq, idx, short) ==
    IF b.atr <= 0 \/ b.sig \notin {"buy", "sell"} THEN None
    ELSE LET side == IF b.sig = "buy" THEN "long" ELSE "short"
             \* stop_distance_pct = atr_sl_mult * atr / price * 100
             sdpN == ATR_SL_MULT * b.atr * 100
             sdpD == b.price
             size == calc_futures_size_from_risk(eq, b.price, sdpN, sdpD, RiskNum, RiskDen,
                                                 FUTURES_LEVERAGE_DEFAULT, short)
             stop_loss == IF side = "long" THEN b.price - ATR_SL_MULT * b.atr
                          ELSE b.price + ATR_SL_MULT * b.atr
             tp1 == IF side = "long" THEN b.price + ATR_TP_MULT_1 * b.atr
                    ELSE b.price - ATR_TP_MULT_1 * b.atr
         IN  IF sdpN <= 0 THEN None
             ELSE IF size.notional <= 0 \/ size.qty <= 0 THEN None
             ELSE Some(PositionState(sym, b.price, size.qty, size.notional, side, idx,
                                     stop_loss, tp1))

\* the entry loop (lines 219-274), from the k-th instrument on
RECURSIVE bt_open_all(_, _, _, _, _, _, _, _, _)
bt_open_all(st, syms, k, bars, eq, idx, c, can_open_more, short) ==
    IF k > Len(syms) \/ ~can_open_more THEN st
    ELSE LET sym == syms[k]
             e == IF sym \in DOMAIN st.positions THEN None ELSE bt_entry(sym, bars[sym], eq, idx, short)
         IN  IF e = None THEN bt_open_all(st, syms, k + 1, bars, eq, idx, c, can_open_more, short)
             ELSE LET ps1 == With(st.positions, sym, Get(e))
                      s1 == [st EXCEPT !.positions = ps1,
                                       !.trace = Append(st.trace,
                                           Event(sym, "open", Get(e), bars[sym].price, Get(e).qty,
                                                 st.balance, st.balance, e))]
                  IN  bt_open_all(s1, syms, k + 1, bars, eq, idx, c,
                                  Cardinality(DOMAIN ps1) < c.max_positions, short)

\* ---------------------------------------------------------------- broker_futures.py

\* LiveFuturesBroker._adjust_qty: int(qty / step) * step, with the exchange's
\* LOT_SIZE step taken to be the lot step of the sizer (two half steps)
adjust_qty(qty) == 2 * (qty \div 2)

\* the broker call a handler awaits: get_balance_usdt or create_market_order;
\* late: the seconds the call has taken when it returns; executed: whether the
\* exchange has executed the order while its answer is still on the way
Call(kind, sym, side, qty, notional, reduce_only, reason, idx) ==
    [kind |-> kind, sym |-> sym, side |-> side, qty |-> qty, notional |-> notional,
     reduce_only |-> reduce_only, reason |-> reason, idx |-> idx, late |-> 0,
     executed |-> FALSE]

\* what futures_create_order does to positionAmt when the exchange executes it
exch_fill(amt, c) ==
    LET q == adjust_qty(c.qty)
    IN  IF ~c.reduce_only THEN (IF c.side = "BUY" THEN amt + q ELSE amt - q)
        ELSE IF c.side = "SELL" THEN amt - Min2(q, amt)
        ELSE amt + Min2(q, -amt)

\* whether the exchange can execute the order: create_market_order raises on a
\* quantity that adjusts to 0, the exchange rejects a reduce-only order that
\* has nothing to reduce
exch_accepts(amt, c) ==
    /\ c.qty > 0
    /\ adjust_qty(c.qty) > 0
    /\ c.reduce_only => IF c.side = "SELL" THEN amt > 0 ELSE amt < 0

\* ---------------------------------------------------------------- live_runner.py

\* the seconds between two closed 15m candles; time.time() at candle idx
CandleSeconds == 900

now_ts(idx) == idx * CandleSeconds

\* an alert sent through the notifier
Alert(sym, rule) ==
    [sym |-> sym, rule |-> rule, side |-> "", entry |-> 0, exit |-> 0, qty |-> 0,
     before |-> MZero, after |-> MZero, pos0 |-> None, pos1 |-> None]

\* LiveRunner._update_position_state on the runner L
live_update_position_state(L, sym, p) ==
    IF p = None
    THEN [L EXCEPT !.positions = Without(@, sym), !.state.positions = Without(@, sym)]
    ELSE [L EXCEPT !.positions = With(@, sym, Get(p)),
                   !.state.positions = With(@, sym, Get(p))]

\* the in-place update of the position object held in _positions
live_set(L, sym, pos) == [L EXCEPT !.positions = With(@, sym, pos)]

\* StateManager.update_balance and update_equity_peak for equity e > 0
update_equity(st, e) ==
    [st EXCEPT !.balances = Some(e),
               !.equity_peak = IF st.equity_peak = None \/ e > Get(st.equity_peak)
                               THEN Some(e) ELSE st.equity_peak]

\* hard_drawdown with the drawdown taken as a fraction of the peak, not as a percentage
hard_drawdown_fraction(st, e, c) ==
    /\ c.hard_dd > 0
    /\ st.equity_peak # None
    /\ e > 0
    /\ Get(st.equity_peak) > 0
    /\ Max2(0, Get(st.equity_peak) - e) >= c.hard_dd * Get(st.equity_peak)

\* the hard drawdown test (lines 286-302): dd_pct >= hard_dd with
\* dd_pct = max(0, (peak - equity) / peak * 100) when it is computed, else 0
hard_drawdown(st, e, c) ==
    /\ c.hard_dd > 0
    /\ st.equity_peak # None
    /\ e > 0
    /\ Get(st.equity_peak) > 0
    /\ Max2(0, (Get(st.equity_peak) - e) * 100) >= c.hard_dd * Get(st.equity_peak)

\* LiveRunner._close_position_live up to its await
live_close_position(L, sym, pos, reason, idx) ==
    IF pos.qty <= 0 THEN live_update_position_state(L, sym, None)
    ELSE [L EXCEPT !.pending = Some(Call("close", sym,
                                         IF pos.side = "long" THEN "SELL" ELSE "BUY",
                                         pos.qty, pos.notional, TRUE, reason, idx))]

\* LiveRunner._close_position_live after its await
live_close_done(L, sym, pos, price, reason, ok) ==
    IF ~ok THEN [L EXCEPT !.trace = Append(@, Alert(sym, "order_error"))]
    ELSE LET sign == IF pos.side = "long" THEN 1 ELSE -1
             pnl == (price - pos.entry_price) * pos.qty * sign
             L1 == [L EXCEPT !.state.realized_pnl = @ + pnl,
                             !.trace = Append(@, Event(sym, reason, pos, price, pos.qty,
                                                       MZero, MZero, None))]
         IN  live_update_position_state(L1, sym, None)

live_stop_hit(pos, price) ==
    /\ pos.stop_loss # None
    /\ \/ pos.side = "long" /\ price <= Get(pos.stop_loss)
       \/ pos.side = "short" /\ price >= Get(pos.stop_loss)

live_tp1_hit(pos, price) ==
    /\ pos.tp1 # None
    /\ pos.qty > 0
    /\ \/ pos.side = "long" /\ price >= Get(pos.tp1)
       \/ pos.side = "short" /\ price <= Get(pos.tp1)

live_new_ts(pos, price, atr) ==
    IF pos.side = "long" THEN price - ATR_TS_MULT * atr ELSE price + ATR_TS_MULT * atr

live_tighter(pos, new_ts) ==
    IF pos.side = "long" THEN new_ts > Get(pos.trailing_stop)
    ELSE new_ts < Get(pos.trailing_stop)

\* live_tp1_levels without pos.tp1 = None
live_tp1_levels_keep(pos, price, atr) ==
    LET new_ts == live_new_ts(pos, price, atr)
    IN  [pos EXCEPT !.stop_loss = Some(pos.entry_price),
                    !.trailing_stop = IF pos.trailing_stop = None \/ live_tighter(pos, new_ts)
                                      THEN Some(new_ts) ELSE pos.trailing_stop]

\* lines 339-343 / 347-351: what follows the partial close of the first target
live_tp1_levels(pos, price, atr) ==
    LET new_ts == live_new_ts(pos, price, atr)
    IN  [pos EXCEPT !.stop_loss = Some(pos.entry_price),
                    !.trailing_stop = IF pos.trailing_stop = None \/ live_tighter(pos, new_ts)
                                      THEN Some(new_ts) ELSE pos.trailing_stop,
                    !.tp1 = None]

\* lines 356-359 / 364-366: the trailing stop ratchet
live_trail(pos, price, atr) ==
    LET new_ts == live_new_ts(pos, price, atr)
    IN  IF live_tighter(pos, new_ts) THEN [pos EXCEPT !.trailing_stop = Some(new_ts)]
        ELSE pos

live_trail_hit(pos, price) ==
    \/ pos.side = "long" /\ price <= Get(pos.trailing_stop)
    \/ pos.side = "short" /\ price >= Get(pos.trailing_stop)

\* lines 373-381: the time-stop
live_time_stop(pos, idx, c) ==
    /\ c.mtf_max_bars > 0
    /\ idx - pos.open_time >= c.mtf_max_bars

\* lines 384-390: the reversal signal
live_reverse(pos, sig) ==
    \/ pos.side = "long" /\ sig = "sell"
    \/ pos.side = "short" /\ sig = "buy"

\* lines 354-393: the rules after the first target, up to the next await
\* live_after_tp1 without the save of line 370
live_after_tp1_unsaved(L, sym, b, idx, c) ==
    LET pos == L.positions[sym]
        trails == pos.trailing_stop # None /\ pos.qty > 0
        pos2 == IF trails THEN live_trail(pos, b.price, b.atr) ELSE pos
        L1 == live_set(L, sym, pos2)
    IN  IF trails /\ live_trail_hit(pos2, b.price)
        THEN live_close_position(L1, sym, pos2, "trailing_stop", idx)
        ELSE IF live_time_stop(pos2, idx, c)
        THEN live_close_position(L1, sym, pos2, "time_stop", idx)
        ELSE IF live_reverse(pos2, b.sig)
        THEN live_close_position(L1, sym, pos2, "reverse_signal", idx)
        ELSE L1

live_after_tp1(L, sym, b, idx, c) ==
    LET pos == L.positions[sym]
        trails == pos.trailing_stop # None /\ pos.qty > 0
        pos2 == IF trails THEN live_trail(pos, b.price, b.atr) ELSE pos
        L1 == live_set(L, sym, pos2)
    IN  IF trails /\ live_trail_hit(pos2, b.price)
        THEN live_close_position(L1, sym, pos2, "trailing_stop", idx)
        ELSE LET L2 == IF trails THEN live_update_position_state(L1, sym, Some(pos2)) ELSE L1
             IN  IF live_time_stop(pos2, idx, c)
                 THEN live_close_position(L2, sym, pos2, "time_stop", idx)
                 ELSE IF live_reverse(pos2, b.sig)
                 THEN live_close_position(L2, sym, pos2, "reverse_signal", idx)
                 ELSE L2

\* lines 339-344 / 347-352 and on: the first target after _close_fraction_live
\* has returned, having closed qty_closed
live_tp1_done(L, sym, pos0, b, idx, c, qty_closed) ==
    LET pos1 == live_tp1_levels(L.positions[sym], b.price, b.atr)
        L1 == live_update_position_state(L, sym, Some(pos1))
        L2 == [L1 EXCEPT !.trace = Append(@, Event(sym, "tp1", pos0, b.price, qty_closed,
                                                   MZero, MZero, Some(pos1)))]
    IN  live_after_tp1(L2, sym, b, idx, c)

\* live_close_fraction_done taking the closed quantity off twice
live_close_fraction_twice(L, sym, qty_close, ok) ==
    IF ~ok THEN L
    ELSE LET pos == L.positions[sym]
             q1 == IF pos.qty - 2 * qty_close < 0 THEN 0 ELSE pos.qty - 2 * qty_close
         IN  live_update_position_state(L, sym,
                 Some([pos EXCEPT !.qty = q1, !.notional = pos.entry_price * q1]))

\* LiveRunner._close_fraction_live after its await: lines 653-662
live_close_fraction_done(L, sym, qty_close, ok) ==
    IF ~ok THEN L
    ELSE LET pos == L.positions[sym]
             q1 == IF pos.qty - qty_close < 0 THEN 0 ELSE pos.qty - qty_close
         IN  live_update_position_state(L, sym,
                 Some([pos EXCEPT !.qty = q1, !.notional = pos.entry_price * q1]))

\* lines 336-352 with _close_fraction_live(fraction = fN / fD) up to its await
live_tp1(L, sym, pos, b, idx, c, fN, fD) ==
    LET qty_close == (pos.qty * fN) \div fD
    IN  IF pos.qty <= 0 \/ fN <= 0 \/ fN >= fD \/ qty_close <= 0
        THEN live_tp1_done(L, sym, pos, b, idx, c, 0)
        ELSE [L EXCEPT !.pending = Some(Call("fraction", sym,
                                             IF pos.side = "long" THEN "SELL" ELSE "BUY",
                                             qty_close, pos.notional, TRUE, "tp1", idx))]

\* lines 318-393: the management of the open position of sym, up to the next await
live_manage(L, sym, b, idx, c) ==
    LET pos == L.positions[sym]
    IN  IF live_stop_hit(pos, b.price) THEN live_close_position(L, sym, pos, "stop_loss", idx)
        ELSE IF live_tp1_hit(pos, b.price) THEN live_tp1(L, sym, pos, b, idx, c, 1, 2)
        ELSE live_after_tp1(L, sym, b, idx, c)

\* live_eff_max_positions without the cap of the MTF strategy
live_max_positions_only(c) == c.max_positions

\* lines 434-441: the cap on simultaneously open positions
live_eff_max_positions(c) ==
    IF c.strategy_name \in {"mtf_breakout", "mtf"}
    THEN Min2(c.max_positions, c.mtf_max_pos)
    ELSE c.max_positions

\* recent_trades with a window of half an hour
recent_trades_half_hour(tts, now) == SelectSeq(tts, LAMBDA t : now - t < 1800)

\* lines 408: the openings of the last hour
recent_trades(tts, now) == SelectSeq(tts, LAMBDA t : now - t < 3600)

\* live_entry without the re-entry interval of lines 417-431
live_entry_no_cooldown(L, sym, b, e, idx, c, short) ==
    IF b.sig \notin {"buy", "sell"} THEN L
    ELSE IF L.td THEN L
    ELSE LET now == now_ts(idx)
             L1 == IF c.max_trades_per_hour > 0
                   THEN [L EXCEPT !.tts = recent_trades(@, now)] ELSE L
             size == calc_futures_size_from_risk(Usdt(e), b.price, ATR_SL_MULT * b.atr * 100,
                                                 b.price, RiskNum, RiskDen,
                                                 FUTURES_LEVERAGE_DEFAULT, short)
         IN  IF c.max_trades_per_hour > 0 /\ Len(L1.tts) >= c.max_trades_per_hour THEN L1
             ELSE IF Cardinality(DOMAIN L1.positions) >= live_eff_max_positions(c) THEN L1
             ELSE IF e <= 0 THEN L1
             ELSE IF size.notional <= 0 \/ size.qty <= 0 THEN L1
             ELSE [L1 EXCEPT !.pending = Some(Call("entry", sym,
                                                   IF b.sig = "buy" THEN "BUY" ELSE "SELL",
                                                   size.qty, size.notional, FALSE, "open", idx))]

\* lines 396-476: the entry decision for the flat instrument sym at equity e,
\* up to the await of the order
live_entry(L, sym, b, e, idx, c, short) ==
    IF b.sig \notin {"buy", "sell"} THEN L
    ELSE IF L.td THEN L
    ELSE LET now == now_ts(idx)
             L1 == IF c.max_trades_per_hour > 0
                   THEN [L EXCEPT !.tts = recent_trades(@, now)] ELSE L
             size == calc_futures_size_from_risk(Usdt(e), b.price, ATR_SL_MULT * b.atr * 100,
                                                 b.price, RiskNum, RiskDen,
                                                 FUTURES_LEVERAGE_DEFAULT, short)
         IN  IF c.max_trades_per_hour > 0 /\ Len(L1.tts) >= c.max_trades_per_hour THEN L1
             ELSE IF /\ c.min_reopen > 0
                     /\ sym \in DOMAIN L1.lot
                     /\ now - L1.lot[sym] < c.min_reopen THEN L1
             ELSE IF Cardinality(DOMAIN L1.positions) >= live_eff_max_positions(c) THEN L1
             ELSE IF e <= 0 THEN L1
             ELSE IF size.notional <= 0 \/ size.qty <= 0 THEN L1
             ELSE [L1 EXCEPT !.pending = Some(Call("entry", sym,
                                                   IF b.sig = "buy" THEN "BUY" ELSE "SELL",
                                                   size.qty, size.notional, FALSE, "open", idx))]

\* live_entry_done with the opening registered before the outcome of the order
live_entry_done_registering(L, sym, b, call, ok) ==
    LET R == [L EXCEPT !.lot = With(@, sym, now_ts(call.idx) + call.late),
                       !.tts = Append(@, now_ts(call.idx) + call.late)]
    IN  IF ~ok THEN [R EXCEPT !.trace = Append(@, Alert(sym, "order_error"))]
        ELSE LET side == IF call.side = "BUY" THEN "long" ELSE "short"
                 stop_loss == IF side = "long" THEN b.price - ATR_SL_MULT * b.atr
                              ELSE b.price + ATR_SL_MULT * b.atr
                 tp1 == IF side = "long" THEN b.price + ATR_TP_MULT_1 * b.atr
                        ELSE b.price - ATR_TP_MULT_1 * b.atr
                 pos == PositionState(sym, b.price, call.qty, call.notional, side, call.idx,
                                      stop_loss, tp1)
                 L1 == live_update_position_state(R, sym, Some(pos))
             IN  [L1 EXCEPT !.trace = Append(@, Event(sym, "open", pos, b.price, pos.qty,
                                                      MZero, MZero, Some(pos)))]

\* lines 477-538: the entry after the await of the order
live_entry_done(L, sym, b, call, ok) ==
    IF ~ok THEN [L EXCEPT !.trace = Append(@, Alert(sym, "order_error"))]
    ELSE LET side == IF call.side = "BUY" THEN "long" ELSE "short"
             stop_loss == IF side = "long" THEN b.price - ATR_SL_MULT * b.atr
                          ELSE b.price + ATR_SL_MULT * b.atr
             tp1 == IF side = "long" THEN b.price + ATR_TP_MULT_1 * b.atr
                    ELSE b.price - ATR_TP_MULT_1 * b.atr
             pos == PositionState(sym, b.price, call.qty, call.notional, side, call.idx,
                                  stop_loss, tp1)
             L1 == live_update_position_state(L, sym, Some(pos))
         IN  [L1 EXCEPT !.trace = Append(@, Event(sym, "open", pos, b.price, pos.qty,
                                                  MZero, MZero, Some(pos))),
                        !.lot = With(@, sym, now_ts(call.idx) + call.late),
                        !.tts = Append(@, now_ts(call.idx) + call.late)]

\* live_guard with the flag following the drawdown test of the tick
live_guard_recovering(L, sym, e, c) ==
    LET L1 == IF e > 0 THEN [L EXCEPT !.state = update_equity(@, e)] ELSE L
    IN  [L1 EXCEPT !.td = hard_drawdown(L1.state, e, c),
                   !.trace = IF L1.td \/ ~hard_drawdown(L1.state, e, c) THEN @
                             ELSE Append(@, Alert(sym, "risk_guard"))]

\* lines 272-316: the equity fetched, the peak and the hard drawdown guard
live_guard(L, sym, e, c) ==
    LET L1 == IF e > 0 THEN [L EXCEPT !.state = update_equity(@, e)] ELSE L
    IN  IF ~hard_drawdown(L1.state, e, c) THEN L1
        ELSE [L1 EXCEPT !.td = TRUE,
                        !.trace = IF L1.td THEN @ ELSE Append(@, Alert(sym, "risk_guard"))]

\* live_tick with the exit rules run, for a flat instrument, on a position the
\* ledger holds for another one
live_tick_managing_any(L, sym, b, e, idx, c, short) ==
    LET L1 == live_guard(L, sym, e, c)
    IN  IF sym \in DOMAIN L1.positions THEN live_manage(L1, sym, b, idx, c)
        ELSE IF DOMAIN L1.positions # {}
        THEN live_manage(L1, CHOOSE t \in DOMAIN L1.positions : TRUE, b, idx, c)
        ELSE live_entry(L1, sym, b, e, idx, c, short)

\* live_tick with the entry decision taken for a held instrument too
live_tick_always_enters(L, sym, b, e, idx, c, short) ==
    live_entry(live_guard(L, sym, e, c), sym, b, e, idx, c, short)

\* _run_strategy_if_ready from the return of get_balance_usdt to the next await
live_tick(L, sym, b, e, idx, c, short) ==
    LET L1 == live_guard(L, sym, e, c)
    IN  IF sym \in DOMAIN L1.positions THEN live_manage(L1, sym, b, idx, c)
        ELSE live_entry(L1, sym, b, e, idx, c, short)

\* the handler from the return of create_market_order to the next await
live_resume(L, sym, b, call, c, ok) ==
    IF call.kind = "close"
    THEN live_close_done(L, sym, L.positions[sym], b.price, call.reason, ok)
    ELSE IF call.kind = "fraction"
    THEN live_tp1_done(live_close_fraction_done(L, sym, call.qty, ok), sym, L.positions[sym],
                       b, call.idx, c, IF ok THEN call.qty ELSE 0)
    ELSE live_entry_done(L, sym, b, call, ok)

\* lines 755-774: the comparison of the heartbeat
local_syms(ps) == {s \in DOMAIN ps : ps[s].qty > 0}


\* ---------------------------------------------------------------- the environment

\* close prices, ATR values and strategy signals of a delivered row
Prices == {100, 110, 120}
Atrs == {0, 1, 2}
Signals == {"none", "buy", "sell"}

\* the number of bars replayed after the warm-up
MaxBars == 3

Rows == [price : Prices, atr : Atrs, sig : Signals]

\* ATR is the rolling mean of the true range over ATR_PERIOD bars
\* (indicators.py:57-64): it is 0 only when the close has not moved since the
\* bar before; with ATR_PERIOD = 1 that is all it takes
RowOk(prev, b) ==
    IF b.atr > 0 \/ prev = None THEN TRUE ELSE Get(prev).price = b.price

\* the rows that can follow the rows last in the frames
NextRows(syms, last) ==
    {bars \in [{syms[k] : k \in 1..Len(syms)} -> Rows] :
        \A s \in DOMAIN bars : RowOk(last[s], bars[s])}

DefaultCfg ==
    [strategy_name |-> "mtf_breakout", mtf_max_bars |-> MTF_MAX_BARS_IN_POSITION,
     max_positions |-> MAX_OPEN_POSITIONS, mtf_max_pos |-> MTF_MAX_OPEN_POSITIONS,
     hard_dd |-> HARD_MAX_DRAWDOWN_PCT, max_trades_per_hour |-> MAX_TRADES_PER_HOUR,
     min_reopen |-> MIN_REOPEN_INTERVAL_SEC, mismatch_disable |-> TRUE]

BacktestCfgs == {DefaultCfg, [DefaultCfg EXCEPT !.mtf_max_bars = 2]}

\* ---------------------------------------------------------------- the risk sizer alone

RiskEquities == {-1, 0, 1, 20, 600, 5000}
RiskPrices == {-1, 0, 3, 7, 100}
\* stop_distance_pct values, as <<numerator, denominator>>
RiskStops == {<<-1, 1>>, <<0, 1>>, <<1, 10>>, <<10, 1>>, <<25, 1>>}
RiskFractions == {<<0, 1>>, <<1, 100>>, <<-1, 100>>}
RiskLeverages == {-1, 0, 1, 5}

SizeCall(eq, price, sdpN, sdpD, riskN, riskD, leverage, short) ==
    [equity |-> eq, price |-> price, sdpN |-> sdpN, sdpD |-> sdpD,
     riskN |-> riskN, riskD |-> riskD, leverage |-> leverage, short |-> short,
     result |-> calc_futures_size_from_risk(eq, price, sdpN, sdpD, riskN, riskD, leverage,
                                            short)]

\* the state every specification starts from, but for cfg and pc, on the
\* instruments syms, with the equity peak peak in the state file
InitState(syms, peak) ==
    /\ sizing = None
    /\ symbols = syms
    /\ positions = <<>>
    /\ balance = Usdt(INITIAL_BALANCE_USDT)
    /\ equity = Usdt(INITIAL_BALANCE_USDT)
    /\ i = Warmup
    /\ bar = [s \in {syms[k] : k \in 1..Len(syms)} |-> None]
    /\ trace = <<>>
    /\ state = [positions |-> <<>>, balances |-> None, equity_peak |-> peak, realized_pnl |-> 0]
    /\ trading_disabled = FALSE
    /\ trade_timestamps = <<>>
    /\ last_open_time = <<>>
    /\ pending = None
    /\ exch = [s \in {syms[k] : k \in 1..Len(syms)} |-> 0]
    /\ hb = [pc |-> "sleep", fetched |-> None, beats |-> 0]
    /\ rpc = None
    /\ twin = [positions |-> <<>>, exact |-> TRUE]
    /\ disk = [file |-> None, tmp |-> None, pc |-> "idle", payload |-> 0, previous |-> None,
               raised |-> FALSE]
    /\ sd = [main |-> "run", start |-> "sleep", stream |-> "connecting", beat |-> "beating",
             cancel |-> {}, stopped |-> FALSE, ws |-> "none", session |-> "none",
             broker |-> "open", notified |-> FALSE, signals |-> 0]
    /\ stream = [pc |-> "connect", delay |-> RECONNECT_DELAY, stopped |-> FALSE,
                 cancel |-> FALSE, waits |-> <<>>, connects |-> 0, reads |-> 0,
                 log |-> <<>>]
    /\ probe = None

InitCommon == InitState(<<"BTCUSDT">>, None)

InitRisk ==
    /\ InitCommon
    /\ cfg = DefaultCfg
    /\ pc = "risk"

SizeProbe ==
    /\ pc = "risk"
    /\ sizing = None
    /\ \E e \in RiskEquities, p \in RiskPrices, s \in RiskStops,
          f \in RiskFractions, l \in RiskLeverages, short \in BOOLEAN :
           sizing' = Some(SizeCall(Usdt(e), p, s[1], s[2], f[1], f[2], l, short))
    /\ UNCHANGED <<symbols, cfg, pc, btVars, liveVars, sysVars>>

NextRisk == SizeProbe

SpecRisk == InitRisk /\ [][NextRisk]_vars

\* ---------------------------------------------------------------- the backtest

InitBacktest ==
    /\ InitCommon
    /\ cfg \in BacktestCfgs
    /\ pc = "run"

\* one iteration of the main loop of Backtester.run (lines 72-274) on the rows
\* bars: position management, equity, entries
bt_bar(ps, bal, bars, idx, c, short) ==
    LET st0 == [positions |-> ps, balance |-> bal, trace |-> <<>>]
        st1 == bt_manage_all(st0, symbols, 1, bars, idx, c)
        eq == bt_equity(st1.balance, st1.positions, symbols, 1, bars)
        can_open_more == Cardinality(DOMAIN st1.positions) < bt_eff_max_positions(c)
        st2 == bt_open_all(st1, symbols, 1, bars, eq, idx, c, can_open_more, short)
    IN  [positions |-> st2.positions, balance |-> st2.balance, trace |-> st2.trace,
         equity |-> eq]

\* one iteration of the main loop on rows of rowsets
Bar(rowsets) ==
    /\ pc = "run"
    /\ i < Warmup + MaxBars
    /\ \E bars \in rowsets, short \in BOOLEAN :
        \E r \in {bt_bar(positions, balance, bars, i, cfg, short)} :
            /\ positions' = r.positions
            /\ balance' = r.balance
            /\ trace' = r.trace
            /\ equity' = r.equity
            /\ bar' = [s \in DOMAIN bars |-> Some(bars[s])]
    /\ i' = i + 1
    /\ UNCHANGED <<sizing, symbols, cfg, pc, liveVars, sysVars>>

BacktestBar == Bar(NextRows(symbols, bar))

\* bt_liquidate leaving the positions as they are
bt_liquidate_none(st, syms, k, bars) == st

\* the liquidation at the last close after the loop (lines 276-289)
RECURSIVE bt_liquidate(_, _, _, _)
bt_liquidate(st, syms, k, bars) ==
    IF k > Len(syms) THEN st
    ELSE LET sym == syms[k]
         IN  IF sym \notin DOMAIN st.positions THEN bt_liquidate(st, syms, k + 1, bars)
             ELSE LET pos == st.positions[sym]
                      bal1 == bt_close_position(st.balance, pos, Get(bars[sym]).price)
                      s1 == [st EXCEPT !.balance = bal1,
                                       !.trace = Append(st.trace,
                                           Event(sym, "liquidation", pos, Get(bars[sym]).price,
                                                 pos.qty, st.balance, bal1, None))]
                  IN  bt_liquidate(s1, syms, k + 1, bars)

BacktestEnd ==
    /\ pc = "run"
    /\ i = Warmup + MaxBars
    /\ LET st == bt_liquidate([positions |-> positions, balance |-> balance, trace |-> <<>>],
                              symbols, 1, bar)
       IN  /\ balance' = st.balance
           /\ trace' = st.trace
    /\ pc' = "done"
    /\ UNCHANGED <<sizing, symbols, cfg, positions, equity, i, bar, liveVars, sysVars>>

NextBacktest == BacktestBar \/ BacktestEnd

SpecBacktest == InitBacktest /\ [][NextBacktest]_vars

\* ------------------------------------------- the backtest on two instruments

\* two of the instruments of FUTURES_SYMBOLS
PortfolioSymbols == <<"BTCUSDT", "ETHUSDT">>

\* the candles: one close, a positive ATR, every signal
PortfolioRows == [price : {100}, atr : {1}, sig : Signals]

\* the two caps, either below the other
CapCfgs ==
    {[DefaultCfg EXCEPT !.max_positions = 3, !.mtf_max_pos = 1],
     [DefaultCfg EXCEPT !.max_positions = 1, !.mtf_max_pos = 3]}

InitCaps ==
    /\ InitState(PortfolioSymbols, None)
    /\ cfg \in CapCfgs
    /\ pc = "run"

CapsBar ==
    Bar({bars \in [{symbols[k] : k \in 1..Len(symbols)} -> PortfolioRows] :
            \A s \in DOMAIN bars : RowOk(bar[s], bars[s])})

NextCaps == CapsBar \/ BacktestEnd

SpecCaps == InitCaps /\ [][NextCaps]_vars

\* ---------------------------------------------------------------- the live runner

\* get_balance_usdt as the handler sees it: 0 stands for a failed request
LiveEquities == {0, 895, 1000}

\* the rows the closed candles deliver
LiveAtrs == {0, 1}

LiveRows == [price : Prices, atr : LiveAtrs, sig : Signals]

\* the heartbeats of a run
MaxBeats == 1

LiveCfgs == {DefaultCfg, [DefaultCfg EXCEPT !.hard_dd = 10, !.mtf_max_bars = 2]}

InitLive ==
    /\ InitCommon
    /\ cfg \in LiveCfgs
    /\ pc = "idle"

\* the runner as the operators of live_runner.py take it
Runner ==
    [positions |-> positions, state |-> state, td |-> trading_disabled, trace |-> trace,
     pending |-> None, tts |-> trade_timestamps, lot |-> last_open_time]

Resume(L) ==
    /\ positions' = L.positions
    /\ state' = L.state
    /\ trading_disabled' = L.td
    /\ trace' = L.trace
    /\ pending' = L.pending
    /\ trade_timestamps' = L.tts
    /\ last_open_time' = L.lot
    /\ pc' = IF L.pending = None THEN "idle" ELSE "await"

\* _on_kline_15m: a closed candle, one of rows and of the first ticks of the
\* run, is appended and _run_strategy_if_ready runs up to its first await
\* (lines 181-276)
Kline(rows, ticks) ==
    /\ pc = "idle"
    /\ i < Warmup + ticks
    /\ \E sym \in {symbols[k] : k \in 1..Len(symbols)} :
       \E b \in {r \in rows : RowOk(bar[sym], r)} :
           /\ bar' = [bar EXCEPT ![sym] = Some(b)]
           /\ IF b.price <= 0 \/ b.atr <= 0
              THEN pc' = "idle" /\ pending' = None
              ELSE pc' = "await" /\ pending' = Some(Call("balance", sym, "", 0, 0, FALSE, "", i))
    /\ i' = i + 1
    /\ trace' = <<>>
    /\ UNCHANGED <<sizing, symbols, cfg, positions, balance, equity, state, trading_disabled,
                   trade_timestamps, last_open_time, exch, hb, sysVars>>

LiveKline == Kline(LiveRows, MaxBars)

\* get_balance_usdt returns e, one of equities, and the handler runs to its next
\* await or its end; slips: whether round_down may fall a step short
Balance(equities, slips) ==
    /\ pc = "await"
    /\ Get(pending).kind = "balance"
    /\ \E e \in equities, short \in slips :
       \E L \in {live_tick(Runner, Get(pending).sym, Get(bar[Get(pending).sym]), e,
                           Get(pending).idx, cfg, short)} :
           /\ Resume(L)
           /\ equity' = Usdt(e)
    /\ UNCHANGED <<sizing, symbols, cfg, balance, i, bar, exch, hb, sysVars>>

LiveBalance == Balance(LiveEquities, BOOLEAN)

\* the return of create_market_order: out = "filled", the exchange executed the
\* order and answered; "lost", it executed the order and the answer was lost;
\* "rejected", the order failed; the call has taken one of lates seconds.  The
\* handler runs to its next await or its end
OrderReturnsAfter(out, lates) ==
    /\ pc = "await"
    /\ Get(pending).kind # "balance"
    /\ \E late \in lates :
       \E L \in {live_resume(Runner, Get(pending).sym, Get(bar[Get(pending).sym]),
                             [Get(pending) EXCEPT !.late = late], cfg, out = "filled")} :
           /\ IF out = "rejected" THEN TRUE
              ELSE exch_accepts(exch[Get(pending).sym], Get(pending))
           /\ exch' = IF out = "rejected" THEN exch
                      ELSE [exch EXCEPT ![Get(pending).sym] = exch_fill(@, Get(pending))]
           /\ Resume(L)
    /\ UNCHANGED <<sizing, symbols, cfg, balance, equity, i, bar, hb, sysVars>>

OrderReturns(out) == OrderReturnsAfter(out, {0})

LiveOrderReply == \E out \in {"filled", "rejected"} : OrderReturns(out)

LiveOrderLost == OrderReturns("lost")

\* lines 738-753: the instruments the heartbeat compares with the ledger;
\* exch_positions_syms stays [] when get_positions has raised
exch_positions_syms(h) == IF h.fetched = None THEN {} ELSE Get(h.fetched)

\* heartbeat_loop: the exchange answers get_positions (ok), or the request fails
HbQuery ==
    /\ pc \in {"idle", "await"}
    /\ hb.pc = "sleep"
    /\ hb.beats < MaxBeats
    /\ \E ok \in BOOLEAN :
           hb' = [hb EXCEPT !.pc = "fetched",
                            !.fetched = IF ok THEN Some({s \in DOMAIN exch : exch[s] # 0})
                                        ELSE None]
    /\ UNCHANGED <<sizing, symbols, cfg, pc, btVars, state, trading_disabled,
                   trade_timestamps, last_open_time, pending, exch, sysVars>>

\* heartbeat_loop after get_positions: lines 755-782
HbCompare ==
    /\ pc \in {"idle", "await"}
    /\ hb.pc = "fetched"
    /\ LET mismatch == exch_positions_syms(hb) # local_syms(positions)
           trips == mismatch /\ cfg.mismatch_disable /\ ~trading_disabled
       IN  /\ trading_disabled' = (trading_disabled \/ trips)
           /\ trace' = IF trips THEN Append(trace, Alert("", "position_mismatch")) ELSE trace
    /\ hb' = [pc |-> "sleep", fetched |-> None, beats |-> hb.beats + 1]
    /\ UNCHANGED <<sizing, symbols, cfg, pc, positions, balance, equity, i, bar, state,
                   trade_timestamps, last_open_time, pending, exch, sysVars>>

NextLive ==
    \/ LiveKline
    \/ LiveBalance
    \/ LiveOrderReply

SpecLive == InitLive /\ [][NextLive]_vars

\* the candle handler together with the heartbeat task
NextHeartbeat ==
    \/ NextLive
    \/ LiveOrderLost
    \/ HbQuery
    \/ HbCompare

SpecHeartbeat == InitLive /\ [][NextHeartbeat]_vars

\* ------------------------------------- the heartbeat and an order in flight

\* create_market_order: the exchange executes the order the handler awaits;
\* the answer has not reached the handler yet
OrderExecutes ==
    /\ pc = "await"
    /\ Get(pending).kind # "balance"
    /\ ~Get(pending).executed
    /\ exch_accepts(exch[Get(pending).sym], Get(pending))
    /\ exch' = [exch EXCEPT ![Get(pending).sym] = exch_fill(@, Get(pending))]
    /\ pending' = Some([Get(pending) EXCEPT !.executed = TRUE])
    /\ UNCHANGED <<sizing, symbols, cfg, pc, btVars, state, trading_disabled,
                   trade_timestamps, last_open_time, hb, sysVars>>

\* the answer of an executed order reaches the handler, which runs to its
\* next await or its end
OrderAnswered ==
    /\ pc = "await"
    /\ Get(pending).kind # "balance"
    /\ Get(pending).executed
    /\ \E L \in {live_resume(Runner, Get(pending).sym, Get(bar[Get(pending).sym]),
                             Get(pending), cfg, TRUE)} : Resume(L)
    /\ UNCHANGED <<sizing, symbols, cfg, balance, equity, i, bar, exch, hb, sysVars>>

\* create_market_order raises: the exchange has executed nothing
OrderRefused ==
    /\ pc = "await"
    /\ Get(pending).kind # "balance"
    /\ ~Get(pending).executed
    /\ \E L \in {live_resume(Runner, Get(pending).sym, Get(bar[Get(pending).sym]),
                             Get(pending), cfg, FALSE)} : Resume(L)
    /\ UNCHANGED <<sizing, symbols, cfg, balance, equity, i, bar, exch, hb, sysVars>>

InitGuard ==
    /\ InitCommon
    /\ cfg = DefaultCfg
    /\ pc = "idle"

GuardBalance == Balance({1000}, {FALSE})

NextGuard ==
    \/ LiveKline
    \/ GuardBalance
    \/ OrderExecutes
    \/ OrderAnswered
    \/ OrderRefused
    \/ HbQuery
    \/ HbCompare

SpecGuard == InitGuard /\ [][NextGuard]_vars

\* --------------------------------------------------- the restart after a crash

\* the restarts of a run
MaxRestarts == 1

InitRestore ==
    /\ InitCommon
    /\ cfg = DefaultCfg
    /\ pc = "idle"

\* the process dies, between two ticks or while a handler awaits the broker,
\* and LiveRunner.start runs again: StateManager.load reads the state file,
\* get_positions rebuilds the ledger (lines 672-682), everything the runner
\* held in memory alone starts as in __init__
Restart ==
    /\ pc \in {"idle", "await"}
    /\ probe # None => Get(probe).restarts < MaxRestarts
    /\ \E file \in {[s \in DOMAIN state.positions |-> to_dict(state.positions[s])]} :
           /\ positions' = get_positions(file, now_ts(i))
           /\ probe' = Some([restarts |-> IF probe = None THEN 1 ELSE Get(probe).restarts + 1,
                             file |-> file])
    /\ pc' = "idle"
    /\ pending' = None
    /\ trace' = <<>>
    /\ trading_disabled' = FALSE
    /\ trade_timestamps' = <<>>
    /\ last_open_time' = <<>>
    /\ hb' = [pc |-> "sleep", fetched |-> None, beats |-> 0]
    /\ UNCHANGED <<sizing, symbols, cfg, balance, equity, i, bar, state, exch,
                   rpc, twin, disk, sd, stream>>

RestoreBalance == Balance({895, 1000}, {FALSE})

NextRestore ==
    \/ LiveKline
    \/ RestoreBalance
    \/ LiveOrderReply
    \/ Restart

SpecRestore == InitRestore /\ [][NextRestore]_vars

\* ------------------------------------------- the live run on two instruments

\* LiveRunner.start (lines 672-681) loads the state file: the equity peak of an
\* earlier run is restored, the ledger is the one the file holds (here empty)
PortfolioPeaks == {None, Some(1000)}

PortfolioEquities == {895, 1000}

\* the two caps, either below the other or as configured, and the drawdown
\* guard at 10 %
PortfolioCfgs ==
    {[DefaultCfg EXCEPT !.hard_dd = 10, !.max_positions = 3, !.mtf_max_pos = 1],
     [DefaultCfg EXCEPT !.hard_dd = 10, !.max_positions = 1, !.mtf_max_pos = 3],
     [DefaultCfg EXCEPT !.hard_dd = 10]}

InitPortfolio ==
    /\ \E peak \in PortfolioPeaks : InitState(PortfolioSymbols, peak)
    /\ cfg \in PortfolioCfgs
    /\ pc = "idle"

PortfolioKline == Kline(PortfolioRows, MaxBars)

PortfolioBalance == Balance(PortfolioEquities, {FALSE})

NextPortfolio ==
    \/ PortfolioKline
    \/ PortfolioBalance
    \/ LiveOrderReply
    \/ HbQuery
    \/ HbCompare

SpecPortfolio == InitPortfolio /\ [][NextPortfolio]_vars

\* ------------------------------------ the live run against the protective layer

\* the candles of a run long enough for a trade timestamp to leave the hour
MaxTicks == 5

\* the seconds create_market_order may take, less than a candle
Latencies == {0, 450}

\* one trade an hour, or two, or a re-entry interval of two candles
ProtectCfgs ==
    {[DefaultCfg EXCEPT !.max_trades_per_hour = 1],
     [DefaultCfg EXCEPT !.max_trades_per_hour = 2],
     [DefaultCfg EXCEPT !.min_reopen = 2 * CandleSeconds]}

InitProtect ==
    /\ InitState(PortfolioSymbols, None)
    /\ cfg \in ProtectCfgs
    /\ pc = "idle"

ProtectKline == Kline(PortfolioRows, MaxTicks)

ProtectBalance == Balance({1000}, {FALSE})

ProtectOrderReply == \E out \in {"filled", "rejected"} : OrderReturnsAfter(out, Latencies)

NextProtect ==
    \/ ProtectKline
    \/ ProtectBalance
    \/ ProtectOrderReply

SpecProtect == InitProtect /\ [][NextProtect]_vars

\* ---------------------------------------------------- the retry wrappers

\* LiveFuturesBroker.__init__ and BinanceClientWrapper.__init__: the attempts
\* and the delays, in milliseconds
RetryDefaults ==
    {[wrapper |-> "LiveFuturesBroker._call", max_retries |-> 5, base_delay |-> 1000,
      max_delay |-> 8000, jitter_pct |-> 20],
     [wrapper |-> "BinanceClientWrapper.call", max_retries |-> 5, base_delay |-> 1000,
      max_delay |-> 10000, jitter_pct |-> 10]}

\* what the wrapped function does: it returns, raises a BinanceAPIException or
\* BinanceRequestException, or raises another exception
Outcomes == {"ok", "api_error", "unexpected_error"}

\* random.random(), in tenths
Randoms == {0, 5, 9}

\* delay = min(base_delay * 2 ** (attempt - 1), max_delay) and
\* sleep_for = delay + delay * jitter * random.random()
backoff(r, rnd) ==
    LET delay == Min2(r.base_delay * 2 ^ (r.attempt - 1), r.max_delay)
    IN  [delay |-> delay, sleep_for |-> delay + (delay * r.jitter_pct * rnd) \div 1000]

\* one turn of the loop of LiveFuturesBroker._call (lines 72-96), r.attempt
\* being the attempt just made: every exception is caught alike
LiveFuturesBroker_call(r, outcome, rnd) ==
    IF outcome = "ok" THEN [r EXCEPT !.pc = "returned"]
    ELSE IF r.attempt >= r.max_retries THEN [r EXCEPT !.pc = "raised"]
    ELSE [r EXCEPT !.pc = "sleep", !.slept = Append(@, backoff(r, rnd))]

\* one turn of the loop of BinanceClientWrapper.call (lines 48-70)
BinanceClientWrapper_call(r, outcome, rnd) ==
    IF outcome = "ok" THEN [r EXCEPT !.pc = "returned"]
    ELSE IF outcome = "api_error"
    THEN IF r.attempt > r.max_retries THEN [r EXCEPT !.pc = "raised"]
         ELSE [r EXCEPT !.pc = "sleep", !.slept = Append(@, backoff(r, rnd))]
    ELSE [r EXCEPT !.pc = "raised"]

InitRetry ==
    /\ InitCommon
    /\ cfg = DefaultCfg
    /\ pc = "rpc"

\* a call enters a wrapper
RpcStart ==
    /\ pc = "rpc"
    /\ rpc = None
    /\ \E d \in RetryDefaults :
           rpc' = Some([wrapper |-> d.wrapper, max_retries |-> d.max_retries,
                        base_delay |-> d.base_delay, max_delay |-> d.max_delay,
                        jitter_pct |-> d.jitter_pct, attempt |-> 0, calls |-> 0,
                        pc |-> "try", slept |-> <<>>, last |-> "none"])
    /\ UNCHANGED <<sizing, symbols, cfg, pc, btVars, liveVars, twin, disk, sd, stream, probe>>

\* attempt += 1, the wrapped function is invoked and the wrapper handles what
\* it does
RpcAttempt ==
    /\ pc = "rpc"
    /\ rpc # None
    /\ Get(rpc).pc = "try"
    /\ \E outcome \in Outcomes, rnd \in Randoms :
           LET r == [Get(rpc) EXCEPT !.attempt = @ + 1, !.calls = @ + 1, !.last = outcome]
           IN  rpc' = Some(IF r.wrapper = "LiveFuturesBroker._call"
                           THEN LiveFuturesBroker_call(r, outcome, rnd)
                           ELSE BinanceClientWrapper_call(r, outcome, rnd))
    /\ UNCHANGED <<sizing, symbols, cfg, pc, btVars, liveVars, twin, disk, sd, stream, probe>>

\* asyncio.sleep(sleep_for) returns
RpcWake ==
    /\ pc = "rpc"
    /\ rpc # None
    /\ Get(rpc).pc = "sleep"
    /\ rpc' = Some([Get(rpc) EXCEPT !.pc = "try"])
    /\ UNCHANGED <<sizing, symbols, cfg, pc, btVars, liveVars, twin, disk, sd, stream, probe>>

NextRetry == RpcStart \/ RpcAttempt \/ RpcWake

SpecRetry == InitRetry /\ [][NextRetry]_vars

\* ---------------------------------------------------- state_manager.py

\* json.dump writes the payload to the file in pieces
Chunks == 2

Payloads == {1, 2}

\* the text of a payload: every piece carries the payload it belongs to
Serial(n) == [k \in 1..Chunks |-> n]

\* a save that also truncates the state file when it opens the temporary one
atomic_write_open_both(d) == [d EXCEPT !.file = Some(<<>>), !.tmp = Some(<<>>), !.pc = "dump"]

\* _atomic_write, line 74: open(tmp_path, "w") creates or truncates the
\* temporary file
atomic_write_open(d) == [d EXCEPT !.tmp = Some(<<>>), !.pc = "dump"]

\* line 75: json.dump writes the next piece; the with block closes the file
\* after the last one
atomic_write_dump(d) ==
    LET text == Append(Get(d.tmp), d.payload)
    IN  [d EXCEPT !.tmp = Some(text),
                  !.pc = IF Len(text) = Chunks THEN "replace" ELSE "dump"]

\* line 76: os.replace(tmp_path, self.state_file)
atomic_write_replace(d) == [d EXCEPT !.file = d.tmp, !.tmp = None, !.pc = "idle"]

\* lines 77-78: except Exception logs and returns; an error inside the with
\* block has closed the temporary file with what was written
atomic_write_except(d) == [d EXCEPT !.pc = "idle", !.raised = FALSE]

InitSave ==
    /\ InitCommon
    /\ cfg = DefaultCfg
    /\ pc = "save"

\* StateManager.save is called with the data of the moment
SaveStart ==
    /\ pc = "save"
    /\ disk.pc = "idle"
    /\ \E n \in Payloads :
           disk' = [disk EXCEPT !.pc = "open", !.payload = n, !.previous = disk.file,
                                !.raised = FALSE]
    /\ UNCHANGED <<sizing, symbols, cfg, pc, btVars, liveVars, rpc, twin, sd, stream, probe>>

\* the next step of _atomic_write succeeds
SaveStep ==
    /\ pc = "save"
    /\ disk.pc \in {"open", "dump", "replace"}
    /\ disk' = IF disk.pc = "open" THEN atomic_write_open(disk)
               ELSE IF disk.pc = "dump" THEN atomic_write_dump(disk)
               ELSE atomic_write_replace(disk)
    /\ UNCHANGED <<sizing, symbols, cfg, pc, btVars, liveVars, rpc, twin, sd, stream, probe>>

\* the next step of _atomic_write raises: OSError from open, write or replace,
\* TypeError or ValueError from json.dump
SaveFails ==
    /\ pc = "save"
    /\ disk.pc \in {"open", "dump", "replace"}
    /\ disk' = atomic_write_except(disk)
    /\ UNCHANGED <<sizing, symbols, cfg, pc, btVars, liveVars, rpc, twin, sd, stream, probe>>

\* the process dies between two steps of the save
SaveCrash ==
    /\ pc = "save"
    /\ disk.pc \in {"open", "dump", "replace"}
    /\ disk' = [disk EXCEPT !.pc = "crashed"]
    /\ UNCHANGED <<sizing, symbols, cfg, pc, btVars, liveVars, rpc, twin, sd, stream, probe>>

\* the bot is started again: StateManager.load reads the state file
SaveRestart ==
    /\ pc = "save"
    /\ disk.pc = "crashed"
    /\ disk' = [disk EXCEPT !.pc = "idle"]
    /\ UNCHANGED <<sizing, symbols, cfg, pc, btVars, liveVars, rpc, twin, sd, stream, probe>>

NextSave == SaveStart \/ SaveStep \/ SaveFails \/ SaveCrash \/ SaveRestart

SpecSave == InitSave /\ [][NextSave]_vars

\* ---------------------------------------------------- the shutdown

\* the signals the operating system delivers to the process
MaxSignals == 2

CloseOutcomes == {"ok", "raises"}

\* the tasks of the loop that have not finished
sd_pending(d) ==
    (IF d.start = "done" THEN {} ELSE {"start"})
        \cup (IF d.stream = "finished" THEN {} ELSE {"stream"})
        \cup (IF d.beat = "finished" THEN {} ELSE {"beat"})

\* main(), lines 822-832: loop.stop ends run_until_complete(runner.start());
\* finally cancels every pending task and runs the loop again on their gather.
\* A loop.stop during that second run raises RuntimeError out of it, which
\* except Exception discards, and loop.close() follows
main_loop_stop(d) ==
    IF d.main = "run"
    THEN [d EXCEPT !.main = "gather", !.cancel = sd_pending(d)]
    ELSE [d EXCEPT !.main = "closed"]

\* BinanceWSManager.stop after the stream task is joined, lines 73-86, and the
\* rest of the finally of LiveRunner.start, lines 795-806: where start() awaits
\* next
start_next(d) ==
    IF d.ws = "open" THEN [d EXCEPT !.start = "ws_close"]
    ELSE IF d.session = "open" THEN [d EXCEPT !.start = "session_close"]
    ELSE [d EXCEPT !.start = "broker_close"]

InitShutdown ==
    /\ InitCommon
    /\ cfg = DefaultCfg
    /\ pc = "shutdown"

\* SIGINT or SIGTERM: the handler installed by main() calls loop.stop
SdSignal ==
    /\ pc = "shutdown"
    /\ sd.main # "closed"
    /\ sd.signals < MaxSignals
    /\ sd' = [main_loop_stop(sd) EXCEPT !.signals = @ + 1]
    /\ UNCHANGED <<sizing, symbols, cfg, pc, btVars, liveVars, rpc, twin, disk, stream, probe>>

\* main(), lines 826-832: gather returns when every task has finished, and the
\* loop is closed
SdGathered ==
    /\ pc = "shutdown"
    /\ sd.main = "gather"
    /\ sd_pending(sd) = {}
    /\ sd' = [sd EXCEPT !.main = "closed"]
    /\ UNCHANGED <<sizing, symbols, cfg, pc, btVars, liveVars, rpc, twin, disk, stream, probe>>

\* BinanceWSManager._run_loop between two awaits: it connects, reads, handles a
\* message, loses the connection and waits to reconnect
StreamRuns ==
    /\ pc = "shutdown"
    /\ sd.main # "closed"
    /\ sd.stream # "finished"
    /\ "stream" \notin sd.cancel
    /\ \/ /\ sd.stream = "connecting"
          /\ \/ sd' = [sd EXCEPT !.stream = "reading", !.session = "open", !.ws = "open"]
             \/ sd' = [sd EXCEPT !.stream = IF sd.stopped THEN "finished" ELSE "backoff",
                                 !.session = "open"]
       \/ /\ sd.stream = "reading"
          /\ \/ sd' = [sd EXCEPT !.stream = "handling"]
             \/ sd' = [sd EXCEPT !.stream = IF sd.stopped THEN "finished" ELSE "backoff",
                                 !.ws = "closed"]
       \/ /\ sd.stream = "handling"
          /\ sd' = [sd EXCEPT !.stream = "reading"]
       \/ /\ sd.stream = "backoff"
          /\ sd' = [sd EXCEPT !.stream = "connecting"]
    /\ UNCHANGED <<sizing, symbols, cfg, pc, btVars, liveVars, rpc, twin, disk, stream, probe>>

\* the stream task receives CancelledError at its await: _run_loop leaves the
\* async with block, which closes the websocket, and returns (lines 127-130,
\* 140)
StreamCancelled ==
    /\ pc = "shutdown"
    /\ sd.main # "closed"
    /\ sd.stream # "finished"
    /\ "stream" \in sd.cancel
    /\ sd' = [sd EXCEPT !.stream = "finished", !.cancel = @ \ {"stream"},
                        !.ws = IF @ = "open" THEN "closed" ELSE @]
    /\ UNCHANGED <<sizing, symbols, cfg, pc, btVars, liveVars, rpc, twin, disk, stream, probe>>

\* heartbeat_loop, lines 703-782: a beat, then asyncio.sleep
BeatRuns ==
    /\ pc = "shutdown"
    /\ sd.main # "closed"
    /\ sd.beat # "finished"
    /\ "beat" \notin sd.cancel
    /\ sd' = [sd EXCEPT !.beat = IF @ = "beating" THEN "sleeping" ELSE "beating"]
    /\ UNCHANGED <<sizing, symbols, cfg, pc, btVars, liveVars, rpc, twin, disk, stream, probe>>

\* the heartbeat task receives CancelledError, which except Exception does not
\* catch
BeatCancelled ==
    /\ pc = "shutdown"
    /\ sd.main # "closed"
    /\ sd.beat # "finished"
    /\ "beat" \in sd.cancel
    /\ sd' = [sd EXCEPT !.beat = "finished", !.cancel = @ \ {"beat"}]
    /\ UNCHANGED <<sizing, symbols, cfg, pc, btVars, liveVars, rpc, twin, disk, stream, probe>>

\* LiveRunner.start, lines 788-796: CancelledError in the sleep; finally calls
\* hb_task.cancel() and BinanceWSManager.stop, which sets _stopped, cancels the
\* stream task and awaits it (lines 64-69)
StartCancelled ==
    /\ pc = "shutdown"
    /\ sd.main # "closed"
    /\ sd.start = "sleep"
    /\ "start" \in sd.cancel
    /\ sd' = [sd EXCEPT !.start = "stop_await", !.stopped = TRUE,
                        !.cancel = (@ \ {"start"}) \cup (sd_pending(sd) \ {"start"})]
    /\ UNCHANGED <<sizing, symbols, cfg, pc, btVars, liveVars, rpc, twin, disk, stream, probe>>

\* await self._task returns: the stream task has finished
StartJoined ==
    /\ pc = "shutdown"
    /\ sd.main # "closed"
    /\ sd.start = "stop_await"
    /\ sd.stream = "finished"
    /\ sd' = start_next(sd)
    /\ UNCHANGED <<sizing, symbols, cfg, pc, btVars, liveVars, rpc, twin, disk, stream, probe>>

\* a close that start() awaits returns or raises an Exception, which is
\* logged: the websocket, the session, then the broker's client, after which
\* notify_bot_stopped is called and start() returns
StartCloses ==
    /\ pc = "shutdown"
    /\ sd.main # "closed"
    /\ sd.start \in {"ws_close", "session_close", "broker_close"}
    /\ \E out \in CloseOutcomes :
        LET res == IF out = "ok" THEN "closed" ELSE "close_failed"
        IN  sd' = IF sd.start = "ws_close" THEN start_next([sd EXCEPT !.ws = res])
                  ELSE IF sd.start = "session_close"
                  THEN start_next([sd EXCEPT !.session = res])
                  ELSE [sd EXCEPT !.broker = res, !.notified = TRUE, !.start = "done"]
    /\ UNCHANGED <<sizing, symbols, cfg, pc, btVars, liveVars, rpc, twin, disk, stream, probe>>

NextShutdown ==
    \/ SdSignal
    \/ SdGathered
    \/ StreamRuns
    \/ StreamCancelled
    \/ BeatRuns
    \/ BeatCancelled
    \/ StartCancelled
    \/ StartJoined
    \/ StartCloses

SpecShutdown == InitShutdown /\ [][NextShutdown]_vars

\* the event loop runs every task that is ready, and every await of the
\* teardown returns or raises
SpecShutdownFair ==
    /\ SpecShutdown
    /\ WF_vars(SdGathered)
    /\ WF_vars(StreamCancelled)
    /\ WF_vars(BeatCancelled)
    /\ WF_vars(StartCancelled)
    /\ WF_vars(StartJoined)
    /\ WF_vars(StartCloses)

\* ---------------------------------------------------- binance_ws_manager.py

\* connection attempts and messages of one run
MaxConnects == 6
MaxReads == 3

ConnectOutcomes == {"connected", "refused"}

\* what the websocket yields: a text frame holding a kline object, a text
\* frame json.loads rejects, a text frame holding JSON that is not an object,
\* an ERROR frame, a CLOSED or CLOSING frame
Frames == {"kline", "bad_json", "not_object", "ws_error", "closed"}

CallbackOutcomes == {"returns", "raises"}

\* line 141 with the cap left out
next_delay_uncapped(delay) == delay * 2

\* line 141: delay = min(delay * 2, self.max_reconnect_delay)
next_delay(delay) == Min2(delay * 2, MAX_RECONNECT_DELAY)

\* lines 135-140: after the try statement: the loop ends when stop() was
\* called, else asyncio.sleep(delay) begins
run_loop_after(w, event) ==
    IF w.stopped THEN [w EXCEPT !.pc = "finished", !.log = Append(@, event)]
    ELSE [w EXCEPT !.pc = "sleep", !.waits = Append(@, w.delay), !.log = Append(@, event)]

\* _safe_call with the failure of the callback reaching _run_loop, whose
\* except Exception leaves the connection
safe_call_unprotected(w, outcome) ==
    IF outcome = "raises" THEN run_loop_after(w, "raised")
    ELSE [w EXCEPT !.pc = "read", !.log = Append(@, "dispatched")]

\* _handle_message on a kline object and _safe_call, lines 160-212: the
\* callback is awaited and its Exception is logged
safe_call(w, outcome) ==
    [w EXCEPT !.pc = "read", !.log = Append(@, IF outcome = "raises" THEN "raised"
                                                ELSE "dispatched")]

InitStream ==
    /\ InitCommon
    /\ cfg = DefaultCfg
    /\ pc = "stream"

\* lines 97-106 and 127-133: the loop condition, then ws_connect returns a
\* websocket or raises
StreamConnect ==
    /\ pc = "stream"
    /\ stream.pc = "connect"
    /\ ~stream.cancel
    /\ stream.connects < MaxConnects
    /\ \E out \in ConnectOutcomes :
           stream' = IF stream.stopped THEN [stream EXCEPT !.pc = "finished"]
                     ELSE IF out = "connected"
                     THEN [stream EXCEPT !.pc = "read", !.delay = RECONNECT_DELAY,
                                         !.waits = <<>>, !.connects = @ + 1,
                                         !.log = Append(@, "connected")]
                     ELSE run_loop_after([stream EXCEPT !.connects = @ + 1], "refused")
    /\ UNCHANGED <<sizing, symbols, cfg, pc, btVars, liveVars, rpc, twin, disk, sd, probe>>

\* lines 108-125: the next frame of the connection
StreamFrame ==
    /\ pc = "stream"
    /\ stream.pc = "read"
    /\ ~stream.cancel
    /\ stream.reads < MaxReads
    /\ \E f \in Frames :
           stream' = IF stream.stopped THEN run_loop_after(stream, "stopped")
                     ELSE IF f = "kline"
                     THEN [stream EXCEPT !.pc = "handle", !.reads = @ + 1]
                     ELSE IF f = "bad_json"
                     THEN [stream EXCEPT !.reads = @ + 1, !.log = Append(@, "bad_json")]
                     ELSE run_loop_after([stream EXCEPT !.reads = @ + 1], f)
    /\ UNCHANGED <<sizing, symbols, cfg, pc, btVars, liveVars, rpc, twin, disk, sd, probe>>

\* the kline callback returns or raises
StreamCallback ==
    /\ pc = "stream"
    /\ stream.pc = "handle"
    /\ ~stream.cancel
    /\ \E out \in CallbackOutcomes : stream' = safe_call(stream, out)
    /\ UNCHANGED <<sizing, symbols, cfg, pc, btVars, liveVars, rpc, twin, disk, sd, probe>>

\* asyncio.sleep(delay) returns: lines 140-141
StreamWake ==
    /\ pc = "stream"
    /\ stream.pc = "sleep"
    /\ ~stream.cancel
    /\ stream' = [stream EXCEPT !.pc = "connect", !.delay = next_delay(@)]
    /\ UNCHANGED <<sizing, symbols, cfg, pc, btVars, liveVars, rpc, twin, disk, sd, probe>>

\* BinanceWSManager.stop, lines 64-67: _stopped.set() and self._task.cancel()
StreamStop ==
    /\ pc = "stream"
    /\ stream.pc # "finished"
    /\ ~stream.stopped
    /\ stream' = [stream EXCEPT !.stopped = TRUE, !.cancel = TRUE]
    /\ UNCHANGED <<sizing, symbols, cfg, pc, btVars, liveVars, rpc, twin, disk, sd, probe>>

\* the task receives CancelledError at the await it is suspended in: inside
\* the try statement lines 127-130 break the loop, in the sleep of line 140
\* the task ends cancelled
StreamEnds ==
    /\ pc = "stream"
    /\ stream.pc # "finished"
    /\ stream.cancel
    /\ stream' = [stream EXCEPT !.pc = "finished", !.cancel = FALSE]
    /\ UNCHANGED <<sizing, symbols, cfg, pc, btVars, liveVars, rpc, twin, disk, sd, probe>>

NextStream ==
    \/ StreamConnect
    \/ StreamFrame
    \/ StreamCallback
    \/ StreamWake
    \/ StreamStop
    \/ StreamEnds

SpecStream == InitStream /\ [][NextStream]_vars

\* the event loop resumes the task when its sleep is over and when it was
\* cancelled
SpecStreamFair ==
    /\ SpecStream
    /\ WF_vars(StreamWake)
    /\ WF_vars(StreamEnds)

\* ---------------------------------------------------- strategies/mtf_breakout.py

\* Prices, moving averages and ATRs are integers; a ratio of two of them is
\* compared with a config.py fraction t / PctDen by cross-multiplication. RSI is
\* counted in half points. A value of the last row is an integer, NaN, or
\* Missing (no such column, or None in it).
PctDen == 100000

NaN == -999999
Missing == -999998

ANTI_CHOP_MIN_ATR_PCT == 50
\* ANTI_CHOP_MIN_ATR_PCT * 1.5
ANTI_CHOP_STRONG_ATR_PCT == 75
HTF_VOLATILE_ATR_PCT == 400
HTF_VOLATILE_DRIFT_PCT == 600
HTF_VOLATILE_ADX_MAX == 22
BREAKOUT_ADX_MIN == 20
MTF_STRONG_TREND_ADX_MARGIN == 5
MTF_ATR_SUPER_HIGH_PCT == 2000
MTF_DRIFT_MIN_PCT == 600
MTF_DRIFT_STRONG_TREND_PCT == 1000
\* MTF_DRIFT_MIN_PCT * MTF_DRIFT_MIN_LOOSEN_FACTOR (0.7)
MTF_DRIFT_MIN_LOOSENED == 420
MTF_LTF_LOOKBACK == 60
MTF_ATR_LOW_VOL_PCT == 300
MTF_ATR_HIGH_VOL_PCT == 1500
MTF_LOOKBACK_MIN == 40
MTF_LOOKBACK_MAX == 80
BREAKOUT_BUFFER_PCT == 100
LTF_ATR_MIN_PCT == 20
LTF_MICRO_ATR_PCT == 150
\* LTF_SLOPE_MIN_ABS (0.001) * LTF_VOLATILE_SLOPE_FACTOR (5.0)
LTF_VOLATILE_SLOPE == 500
\* the RSI bounds, in half points
MTF_RSI_LONG_MIN == 100
MTF_RSI_LONG_MAX == 170
MTF_RSI_SHORT_MIN == 30
MTF_RSI_SHORT_MAX == 110
MTF_RSI_TIGHTEN == 10
MinHistory == 100

IsNum(v) == v \notin {NaN, Missing}

\* float(x) raises TypeError or ValueError
NoFloat(v) == v = Missing

\* comparisons of floats: false when an operand is NaN
FLt(a, b) == IsNum(a) /\ IsNum(b) /\ a < b
FLe(a, b) == IsNum(a) /\ IsNum(b) /\ a <= b

\* a / b < t / PctDen and a / b > t / PctDen for b > 0; false when a is NaN
PctLt(a, b, t) == IsNum(a) /\ a * PctDen < t * b
PctGt(a, b, t) == IsNum(a) /\ a * PctDen > t * b

\* lines 106-116 and 138-147: abs(last - prev) / last
drift_num(x, prev) == Abs(x.close - prev)

\* lines 151-170: the minimum drift, loosened in a strong trend
drift_min_eff(x) ==
    IF /\ x.adx_h >= BREAKOUT_ADX_MIN + MTF_STRONG_TREND_ADX_MARGIN
       /\ ~PctLt(x.atr_h, x.close, ANTI_CHOP_STRONG_ATR_PCT)
       /\ ~PctGt(x.atr_h, x.close, HTF_VOLATILE_ATR_PCT)
    THEN MTF_DRIFT_MIN_LOOSENED ELSE MTF_DRIFT_MIN_PCT

\* lines 186-207: the breakout lookback
lookback_ltf(x) ==
    LET lb0 == IF PctLt(x.atr_h, x.close, MTF_ATR_LOW_VOL_PCT)
               THEN Min2(MTF_LOOKBACK_MAX, (MTF_LTF_LOOKBACK * 13) \div 10)
               ELSE IF PctGt(x.atr_h, x.close, MTF_ATR_HIGH_VOL_PCT)
               THEN Max2(MTF_LOOKBACK_MIN, (MTF_LTF_LOOKBACK * 7) \div 10)
               ELSE MTF_LTF_LOOKBACK
        d == drift_num(x, x.prev96)
    IN  IF d * PctDen > MTF_DRIFT_MIN_PCT * x.close
           /\ d * PctDen < MTF_DRIFT_STRONG_TREND_PCT * x.close
        THEN Min2(MTF_LOOKBACK_MAX, (lb0 * 12) \div 10)
        ELSE IF d * PctDen >= MTF_DRIFT_STRONG_TREND_PCT * x.close
        THEN Max2(MTF_LOOKBACK_MIN, (lb0 * 85) \div 100)
        ELSE lb0

\* lines 270-290: the RSI bands after the adaptation to the drift
rsi_band(x) ==
    LET d == drift_num(x, x.prev96)
        weak == /\ d * PctDen > MTF_DRIFT_MIN_PCT * x.close
                /\ d * PctDen < MTF_DRIFT_STRONG_TREND_PCT * x.close
        strong == d * PctDen >= MTF_DRIFT_STRONG_TREND_PCT * x.close
    IN  [long_min |-> IF weak THEN MTF_RSI_LONG_MIN + MTF_RSI_TIGHTEN
                      ELSE IF strong THEN Max2(80, MTF_RSI_LONG_MIN - (MTF_RSI_TIGHTEN \div 2))
                      ELSE MTF_RSI_LONG_MIN,
         long_max |-> MTF_RSI_LONG_MAX,
         short_min |-> MTF_RSI_SHORT_MIN,
         short_max |-> IF weak THEN MTF_RSI_SHORT_MAX - MTF_RSI_TIGHTEN
                       ELSE IF strong THEN Min2(120, MTF_RSI_SHORT_MAX + (MTF_RSI_TIGHTEN \div 2))
                       ELSE MTF_RSI_SHORT_MAX]

\* lines 77-81
regime(x) ==
    IF x.ema20 > x.ema50 /\ x.ema50 > x.ema200 THEN "bull"
    ELSE IF x.ema20 < x.ema50 /\ x.ema50 < x.ema200 THEN "bear"
    ELSE "none"

\* lines 86-179: the filters on the higher timeframe and on the drift
htf_filters_pass(x) ==
    /\ x.close > 0 /\ x.atr_h > 0
    /\ ~PctLt(x.atr_h, x.close, ANTI_CHOP_MIN_ATR_PCT)
    /\ x.adx_h >= BREAKOUT_ADX_MIN
    /\ ~(/\ PctGt(x.atr_h, x.close, HTF_VOLATILE_ATR_PCT)
          /\ drift_num(x, x.prev16) * PctDen < HTF_VOLATILE_DRIFT_PCT * x.close
          /\ x.adx_h < HTF_VOLATILE_ADX_MAX)
    /\ ~PctGt(x.atr_h, x.close, MTF_ATR_SUPER_HIGH_PCT)
    /\ ~(drift_num(x, x.prev96) * PctDen < drift_min_eff(x) * x.close)

\* lines 209-268: the filters on the lower timeframe
ltf_filters_pass(x) ==
    /\ x.n >= lookback_ltf(x) + 2
    /\ ~(x.vol_ma > 0 /\ FLt(IF IsNum(x.volume) THEN 2 * x.volume ELSE x.volume,
                              3 * x.vol_ma))
    /\ ~(x.close <= 0 \/ FLe(x.atr, 0))
    /\ ~PctLt(x.atr, x.close, LTF_ATR_MIN_PCT)
    /\ ~(/\ PctGt(x.atr, x.close, LTF_MICRO_ATR_PCT)
          /\ Abs(x.close - x.prev30) * PctDen < LTF_VOLATILE_SLOPE * x.close)

\* lines 216-219
long_trigger_passed(x) == x.close * PctDen > x.range_high * (PctDen + BREAKOUT_BUFFER_PCT)
short_trigger_passed(x) == x.close * PctDen < x.range_low * (PctDen - BREAKOUT_BUFFER_PCT)

\* final_signal without the test of the regime
final_signal_any_regime(x) ==
    IF /\ long_trigger_passed(x)
       /\ FLe(rsi_band(x).long_min, x.rsi) /\ FLe(x.rsi, rsi_band(x).long_max)
    THEN "buy"
    ELSE IF /\ short_trigger_passed(x)
            /\ FLe(rsi_band(x).short_min, x.rsi) /\ FLe(x.rsi, rsi_band(x).short_max)
    THEN "sell"
    ELSE "none"

\* lines 296-312
final_signal(x) ==
    IF /\ regime(x) = "bull" /\ long_trigger_passed(x)
       /\ FLe(rsi_band(x).long_min, x.rsi) /\ FLe(x.rsi, rsi_band(x).long_max)
    THEN "buy"
    ELSE IF /\ regime(x) = "bear" /\ short_trigger_passed(x)
            /\ FLe(rsi_band(x).short_min, x.rsi) /\ FLe(x.rsi, rsi_band(x).short_max)
    THEN "sell"
    ELSE "none"

HtfFields == {"ema20", "ema50", "ema200", "atr_h", "adx_h", "rsi_h", "sma_trend_h"}

\* MTFBreakoutStrategy.signal, with None as "none"
mtf_signal(x) ==
    IF x.n < MinHistory THEN "none"
    ELSE IF \E f \in {"close", "high", "low", "volume", "rsi", "atr"} : NoFloat(x[f]) THEN "none"
    ELSE IF \E f \in HtfFields : NoFloat(x[f]) THEN "none"
    ELSE IF \E f \in HtfFields \cup {"close"} : x[f] = NaN THEN "none"
    ELSE IF regime(x) = "none" THEN "none"
    ELSE IF ~htf_filters_pass(x) THEN "none"
    ELSE IF ~ltf_filters_pass(x) THEN "none"
    ELSE final_signal(x)

\* the last row and the history behind it; ema gives EMA20, EMA50, EMA200 of
\* the higher timeframe, window the high and the low of the breakout range
SignalInput(close, rsi, atr, volume, ema, atr_h, adx_h, window, prev16, prev30, prev96) ==
    [n |-> 300, close |-> close, high |-> close, low |-> close, volume |-> volume,
     rsi |-> rsi, atr |-> atr, ema20 |-> ema[1], ema50 |-> ema[2], ema200 |-> ema[3],
     atr_h |-> atr_h, adx_h |-> adx_h, rsi_h |-> 100, sma_trend_h |-> close,
     range_high |-> window[1], range_low |-> window[2], vol_ma |-> 100,
     prev16 |-> prev16, prev30 |-> prev30, prev96 |-> prev96]

SignalEmas == {<<3, 2, 1>>, <<1, 2, 3>>, <<2, 3, 1>>, <<2, 2, 1>>}
SignalWindows == {<<9900, 9500>>, <<10500, 10100>>, <<10050, 9950>>}
SignalRsis == {20, 96, 104, 114, 140, 180}
SignalAdxs == {15, 21, 30}
SignalHtfAtrs == {3, 20, 50, 250}
SignalAtrs == {0, 1, 10, 30}
SignalVolumes == {100, 200}
SignalDrifts == {10000, 9950, 9930, 9800}

SignalInputs ==
    {SignalInput(10000, rsi, atr, volume, ema, atr_h, adx_h, window, prev16, prev30, prev96) :
        rsi \in SignalRsis, atr \in SignalAtrs, volume \in SignalVolumes, ema \in SignalEmas,
        atr_h \in SignalHtfAtrs, adx_h \in SignalAdxs, window \in SignalWindows,
        prev16 \in {10000, 9900}, prev30 \in {10000, 9900}, prev96 \in SignalDrifts}

\* rows on which nothing but the final conditions can hold a signal back
BreakoutInputs ==
    {SignalInput(10000, rsi, atr, volume, ema, 20, 30, window, 9900, 9900, prev96) :
        rsi \in {104, 140}, atr \in {10, 30}, volume \in SignalVolumes,
        ema \in {<<3, 2, 1>>, <<1, 2, 3>>}, window \in SignalWindows, prev96 \in {9930, 9800}}

RequiredFields == {"close", "volume", "rsi", "atr"} \cup HtfFields

InitSignal ==
    /\ InitCommon
    /\ cfg = DefaultCfg
    /\ pc = "signal"

\* signal(df) on a frame whose last row is complete
SignalProbe ==
    /\ pc = "signal"
    /\ probe = None
    /\ \E x \in SignalInputs :
           probe' = Some([input |-> x, defect |-> "none", result |-> mtf_signal(x)])
    /\ UNCHANGED <<sizing, symbols, cfg, pc, btVars, liveVars, rpc, twin, disk, sd, stream>>

\* signal(df) on a frame that is too short, or whose last row lacks one
\* required value or holds NaN in it
SignalProbeDefect ==
    /\ pc = "signal"
    /\ probe = None
    /\ \E x \in BreakoutInputs :
          \/ probe' = Some([input |-> [x EXCEPT !.n = MinHistory - 1], defect |-> "none",
                            result |-> mtf_signal([x EXCEPT !.n = MinHistory - 1])])
          \/ \E f \in RequiredFields, v \in {NaN, Missing} :
                 probe' = Some([input |-> [x EXCEPT ![f] = v], defect |-> f,
                                result |-> mtf_signal([x EXCEPT ![f] = v])])
    /\ UNCHANGED <<sizing, symbols, cfg, pc, btVars, liveVars, rpc, twin, disk, sd, stream>>

NextSignal == SignalProbe \/ SignalProbeDefect

SpecSignal == InitSignal /\ [][NextSignal]_vars

\* ------------------------------------------- both drivers on the same ticks

RECURSIVE live_settle(_, _, _, _)
\* the candle handler run to its return, every order it awaits being filled
live_settle(L, sym, b, c) ==
    IF L.pending = None THEN L
    ELSE live_settle(live_resume([L EXCEPT !.pending = None], sym, b, Get(L.pending), c, TRUE),
                     sym, b, c)

InitLockstep ==
    /\ InitCommon
    /\ cfg \in BacktestCfgs
    /\ pc = "lockstep"

\* one bar given to Backtester.run and, as a closed candle with the account's
\* equity in whole USDT, to LiveRunner._run_strategy_if_ready
Lockstep ==
    /\ pc = "lockstep"
    /\ i < Warmup + MaxBars
    /\ \E sym \in {symbols[1]} :
       \E b \in {r \in LiveRows : RowOk(bar[sym], r)}, short \in BOOLEAN :
       \E eq0 \in {bt_equity(balance, positions, symbols, 1, [s \in {sym} |-> b])} :
       \E e \in {eq0.u \div QU} :
       \E r \in {bt_bar(positions, balance, [s \in {sym} |-> b], i, cfg, short)} :
       \E L0 \in {[Runner EXCEPT !.positions = twin.positions, !.trace = <<>>]} :
       \E L1 \in {IF b.price <= 0 \/ b.atr <= 0 THEN L0
                   ELSE live_settle(live_tick(L0, sym, b, e, i, cfg, short), sym, b, cfg)} :
           /\ positions' = r.positions
           /\ balance' = r.balance
           /\ trace' = r.trace
           /\ equity' = r.equity
           /\ bar' = [bar EXCEPT ![sym] = Some(b)]
           /\ twin' = [positions |-> L1.positions, exact |-> twin.exact /\ eq0 = Usdt(e)]
           /\ state' = L1.state
           /\ trading_disabled' = L1.td
           /\ trade_timestamps' = L1.tts
           /\ last_open_time' = L1.lot
    /\ i' = i + 1
    /\ UNCHANGED <<sizing, symbols, cfg, pc, pending, exch, hb, rpc, disk, sd, stream, probe>>

NextLockstep == Lockstep

SpecLockstep == InitLockstep /\ [][NextLockstep]_vars

\* ---------------------------------------- both drivers on two instruments

\* ------------------------------------------------- the time-stop of both drivers

\* MTF_MAX_BARS_IN_POSITION and STRATEGY_NAME as config.py may set them: the
\* time-stop on, the time-stop on under another strategy name, the time-stop off
TimeStopCfgs ==
    {[DefaultCfg EXCEPT !.mtf_max_bars = 2],
     [DefaultCfg EXCEPT !.mtf_max_bars = 2, !.strategy_name = "htf_breakout"],
     [DefaultCfg EXCEPT !.mtf_max_bars = 0]}

InitTimeStop ==
    /\ InitCommon
    /\ cfg \in TimeStopCfgs
    /\ pc \in {"run", "idle"}

NextTimeStop == NextBacktest \/ NextLive

SpecTimeStop == InitTimeStop /\ [][NextTimeStop]_vars

InitDrivers == InitCaps \/ InitPortfolio

NextDrivers == NextCaps \/ NextPortfolio

SpecDrivers == InitDrivers /\ [][NextDrivers]_vars

\* ---------------------------------------------------------------- the whole

Init == InitRisk \/ InitBacktest \/ InitLive

Next == NextRisk \/ NextBacktest \/ NextLive

Spec == Init /\ [][Next]_vars


\* ---------------------------------------------------------------- properties

\* the ticks of a driver: a bar of the backtest, a handled candle of the runner
TickDone == pc \in {"run", "idle"} /\ i > Warmup

TickRules == {"stop_loss", "tp1", "trailing_stop", "time_stop", "reverse_signal"}

\* whether the ledgers p and q hold the same position, opened by the same entry
SamePosition(p, q) ==
    p.open_time = q.open_time /\ p.side = q.side /\ p.entry_price = q.entry_price

\* the full closes of the ticks of trace tr leave the instrument out of ledger ps,
\* unless a later entry of the same tick holds it again
ClosedIsRemoved(tr, ps) ==
    \A k \in 1..Len(tr) :
        (tr[k].rule \in TickRules /\ tr[k].pos0 # None /\ tr[k].pos1 = None)
            => \/ tr[k].sym \notin DOMAIN ps
               \/ \E m \in (k + 1)..Len(tr) : tr[m].rule = "open" /\ tr[m].sym = tr[k].sym

\* C1: in both drivers, after any sequence of ticks, every position held in the
\* ledger (and, live, in the persisted positions map) has a quantity that is
\* >= 0 and not 0, and an instrument whose position a tick closed in full is in
\* neither unless the same tick opened a new position on it.
C1_QuantityPositive ==
    /\ \A s \in DOMAIN positions : positions[s].qty >= 0 /\ positions[s].qty # 0
    /\ \A s \in DOMAIN state.positions : state.positions[s].qty >= 0 /\ state.positions[s].qty # 0
    /\ ClosedIsRemoved(trace, positions)
    /\ pc = "idle" => ClosedIsRemoved(trace, state.positions)

\* a live first target has closed half of a position, which stays in the ledger
\* and in the persisted map with the rest
C1_Witness ==
    /\ pc = "idle"
    /\ \E k \in 1..Len(trace) :
        /\ trace[k].rule = "tp1"
        /\ trace[k].qty > 0
        /\ trace[k].sym \in DOMAIN positions
        /\ trace[k].sym \in DOMAIN state.positions
        /\ positions[trace[k].sym].qty = Get(trace[k].pos0).qty - trace[k].qty
        /\ state.positions[trace[k].sym].qty = positions[trace[k].sym].qty

\* whether price is at or beyond the stop_loss of pos
StopHit(pos, price) ==
    /\ pos.stop_loss # None
    /\ IF pos.side = "long" THEN price <= Get(pos.stop_loss) ELSE price >= Get(pos.stop_loss)

\* C2: at the end of every tick delivered for an instrument, a position that
\* was held before the tick and whose stop_loss the close of the tick has
\* reached is closed in full (live: unless the close order failed), and no
\* first target, trailing stop, time-stop or reversal of the tick has acted on a
\* position whose stop_loss the close had reached.
C2_StopLossFirst ==
    TickDone =>
        /\ \A s \in DOMAIN positions :
            (/\ positions[s].open_time < i - 1
             /\ bar[s] # None
             /\ StopHit(positions[s], Get(bar[s]).price))
                => \E k \in 1..Len(trace) : trace[k].rule = "order_error" /\ trace[k].sym = s
        /\ \A k \in 1..Len(trace) :
            (trace[k].rule \in TickRules \ {"stop_loss"} /\ trace[k].pos0 # None)
                => ~StopHit(Get(trace[k].pos0), trace[k].exit)

\* whether the trailing stop of q is at least as tight as that of p, once p has one
NotLooser(p, q) ==
    p.trailing_stop # None =>
        /\ q.trailing_stop # None
        /\ IF p.side = "long" THEN Get(q.trailing_stop) >= Get(p.trailing_stop)
           ELSE Get(q.trailing_stop) <= Get(p.trailing_stop)

Ratchet(ps, qs) ==
    \A s \in DOMAIN ps \cap DOMAIN qs : SamePosition(ps[s], qs[s]) => NotLooser(ps[s], qs[s])

\* C3: over every step of either driver, a position that stays open and has a
\* trailing_stop keeps one, and it does not decrease for a long nor increase
\* for a short, in the ledger and in the persisted positions map.
C3_TrailingRatchet ==
    [][Ratchet(positions, positions') /\ Ratchet(state.positions, state'.positions)]_vars

\* a tick has left open a long whose trailing stop is above the level the
\* tick's close and ATR propose
C3_Witness ==
    /\ TickDone
    /\ trace = <<>>
    /\ \E s \in DOMAIN positions :
        /\ positions[s].side = "long"
        /\ positions[s].trailing_stop # None
        /\ positions[s].open_time < i - 1
        /\ Get(bar[s]).atr > 0
        /\ Get(bar[s]).price - ATR_TS_MULT * Get(bar[s]).atr < Get(positions[s].trailing_stop)

Tp1StaysCleared(ps, qs) ==
    \A s \in DOMAIN ps \cap DOMAIN qs :
        (SamePosition(ps[s], qs[s]) /\ ps[s].tp1 = None) => qs[s].tp1 = None

\* C4: the first target acts only on a position whose tp1 is set and leaves
\* tp1 null, and the tp1 of a position that stays open never goes from null
\* back to a level: no later tick can take the first target again.
C4_Tp1Once ==
    [][/\ Tp1StaysCleared(positions, positions')
       /\ Tp1StaysCleared(state.positions, state'.positions)
       /\ \A k \in 1..Len(trace') :
            trace'[k].rule = "tp1"
                => Get(trace'[k].pos0).tp1 # None /\ Get(trace'[k].pos1).tp1 = None]_vars

\* a tick without any close has left open a long whose tp1 is null, at a close
\* at or above every level its tp1 can have had
C4_Witness ==
    /\ TickDone
    /\ trace = <<>>
    /\ \E s \in DOMAIN positions :
        /\ positions[s].side = "long"
        /\ positions[s].tp1 = None
        /\ Get(bar[s]).atr > 0
        /\ \A a \in Atrs :
            Get(bar[s]).price >= positions[s].entry_price + ATR_TP_MULT_1 * a

\* C5: every first target of a tick closes exactly half of the quantity held,
\* sets stop_loss to entry_price, sets trailing_stop to the level proposed by
\* the close and ATR if it was null or looser, leaves notional = entry_price *
\* remaining quantity and clears tp1.
C5_Tp1Effects ==
    \A k \in 1..Len(trace) :
        trace[k].rule = "tp1" =>
            LET p0 == Get(trace[k].pos0)
                p1 == Get(trace[k].pos1)
                atr == Get(bar[trace[k].sym]).atr
                new_ts == IF p0.side = "long" THEN trace[k].exit - ATR_TS_MULT * atr
                          ELSE trace[k].exit + ATR_TS_MULT * atr
                tighter == IF p0.trailing_stop = None THEN TRUE
                           ELSE IF p0.side = "long" THEN new_ts > Get(p0.trailing_stop)
                           ELSE new_ts < Get(p0.trailing_stop)
            IN  /\ 2 * trace[k].qty = p0.qty
                /\ p1.qty = p0.qty - trace[k].qty
                /\ p1.stop_loss = Some(p0.entry_price)
                /\ p1.trailing_stop = IF tighter THEN Some(new_ts) ELSE p0.trailing_stop
                /\ p1.notional = p0.entry_price * p1.qty
                /\ p1.tp1 = None

\* C6: in the backtest every close of a tick and of the final liquidation, full
\* or partial, of quantity q changes the balance by exactly
\* (X - E) * q * sign - (E * q + X * q) * f, X the close price, E the entry
\* price, sign +1 for a long and -1 for a short; a partial close leaves the
\* quantity held less q, and the balance after the tick is the one its last
\* event left.
C6_CloseBalance ==
    /\ \A k \in 1..Len(trace) :
        trace[k].rule # "open" =>
            LET e == trace[k]
                sign == IF e.side = "long" THEN 1 ELSE -1
                pnl == (e.exit - e.entry) * e.qty * sign
                legs == e.entry * e.qty + e.exit * e.qty
            IN  /\ e.after = MAdd(e.before, MNorm(pnl, -(legs * FeeNum)))
                /\ e.pos1 # None => Get(e.pos1).qty = Get(e.pos0).qty - e.qty
                /\ e.pos1 = None => e.qty = Get(e.pos0).qty
    /\ \A k \in 1..(Len(trace) - 1) : trace[k + 1].before = trace[k].after
    /\ Len(trace) > 0 => balance = trace[Len(trace)].after

\* a bar of the backtest has closed half of a short at a profit and then the
\* rest of it
C6_Witness ==
    /\ pc = "run"
    /\ \E k \in 1..Len(trace), m \in 1..Len(trace) :
        /\ k < m
        /\ trace[k].rule = "tp1"
        /\ trace[k].side = "short"
        /\ trace[k].qty > 0
        /\ MLess(trace[k].before, trace[k].after)
        /\ trace[m].rule \in TickRules \ {"tp1"}
        /\ trace[m].qty = Get(trace[k].pos1).qty

\* whether every input of the call c of the sizer is positive
PositiveInputs(c) ==
    /\ MLess(MZero, c.equity)
    /\ c.price > 0
    /\ c.sdpN > 0
    /\ c.riskN > 0
    /\ c.leverage > 0

\* min(equity * risk_per_trade * 100 / stop_distance_pct, equity * leverage) of the call c
Desired(c) == desired_notional(c.equity, c.sdpN, c.sdpD, c.riskN, c.riskD, c.leverage)

\* the whole lot steps in Desired(c) / price, and the notional they make
DesiredSteps(c) == VFloor(VMul(Desired(c), 1, 2 * c.price))

MinNotional == Val(Usdt(MIN_NOTIONAL_USDT))

\* C7: calc_futures_size_from_risk returns (0, 0) when any of equity, price,
\* stop_distance_pct, risk_per_trade, leverage is <= 0, and when the desired
\* notional, its quantity floored to the lot step, makes a notional below the
\* minimum notional.
C7_RejectsUnusable ==
    sizing # None =>
        LET c == Get(sizing)
        IN  IF ~PositiveInputs(c) THEN c.result = ZeroSize
            ELSE 2 * DesiredSteps(c) * c.price < MIN_NOTIONAL_USDT * QU => c.result = ZeroSize

\* C8: a non-zero result of calc_futures_size_from_risk has a notional that
\* does not exceed the desired notional, and a desired notional below the
\* minimum notional gives (0, 0).
C8_NeverUpsized ==
    (sizing # None /\ PositiveInputs(Get(sizing))) =>
        LET c == Get(sizing)
        IN  /\ c.result # ZeroSize => VLeq(Val(MInt(c.result.notional)), Desired(c))
            /\ VLess(Desired(c), MinNotional) => c.result = ZeroSize

\* C9: for positive inputs whose desired notional is at least the minimum
\* notional, calc_futures_size_from_risk returns the quantity
\* floor(desired / price) in lot steps and the notional quantity * price.
C9_FloorOfDesired ==
    (sizing # None /\ PositiveInputs(Get(sizing))) =>
        LET c == Get(sizing)
        IN  VLeq(MinNotional, Desired(c)) =>
                /\ c.result.qty = 2 * DesiredSteps(c)
                /\ c.result.notional = c.result.qty * c.price

\* the runner is past the drawdown guard of a candle it has handled
GuardPassed ==
    /\ i > Warmup
    /\ \/ pc = "idle"
       \/ pc = "await" /\ Get(pending).kind # "balance"

\* the equity get_balance_usdt returned last, in USDT
FetchedEquity == equity.u \div QU

\* (equity_peak - equity) / equity_peak * 100 >= HARD_MAX_DRAWDOWN_PCT
DrawdownReached ==
    /\ cfg.hard_dd > 0
    /\ state.equity_peak # None
    /\ Get(state.equity_peak) > 0
    /\ (Get(state.equity_peak) - FetchedEquity) * 100 >= cfg.hard_dd * Get(state.equity_peak)

\* the tick has decided no entry: no order of one is awaited, none was placed
NoEntry ==
    /\ pending # None => Get(pending).kind # "entry"
    /\ \A k \in 1..Len(trace) : trace[k].rule # "open"

\* C10 as stated: whenever a tick is handled with the drawdown at or past
\* HARD_MAX_DRAWDOWN_PCT > 0, trading_disabled is true before the entry
\* decision and the tick opens no entry.
C10_AnyEquity ==
    (GuardPassed /\ DrawdownReached) => (trading_disabled /\ NoEntry)

\* C10: whenever a tick is handled with a fetched equity > 0 and the drawdown
\* at or past HARD_MAX_DRAWDOWN_PCT > 0, trading_disabled is true before the
\* entry decision and the tick opens no entry; with a fetched equity <= 0 the
\* tick opens no entry either.
C10_DrawdownGuard ==
    (GuardPassed /\ DrawdownReached) =>
        /\ FetchedEquity > 0 => trading_disabled
        /\ NoEntry

\* the tick that fetched equity 895 under the peak 1000 with the threshold 10
\* has tripped the guard on a flat instrument with an entry signal
C10_Witness ==
    /\ pc = "idle"
    /\ cfg.hard_dd = 10
    /\ state.equity_peak = Some(1000)
    /\ FetchedEquity = 895
    /\ trading_disabled
    /\ positions = <<>>
    /\ \E s \in DOMAIN bar : bar[s] # None /\ Get(bar[s]).sig \in {"buy", "sell"}
    /\ \E k \in 1..Len(trace) : trace[k].rule = "risk_guard"



\* ---------------------------------------------------------------- C11
\* C11: once trading_disabled is set, by the drawdown guard of a tick or by the
\* mismatch guard of the heartbeat, no step of the run clears it: not a tick,
\* not a heartbeat, not a fetched equity back at its peak.
C11_DisabledSticky == [][trading_disabled => trading_disabled']_vars

\* the drawdown guard has set the flag (no heartbeat has run) and a later tick
\* has fetched an equity back at the peak
C11_Witness ==
    /\ trading_disabled
    /\ hb.beats = 0 /\ hb.pc = "sleep"
    /\ pc = "idle"
    /\ state.equity_peak # None
    /\ state.balances = state.equity_peak


\* ---------------------------------------------------------------- C12
\* whether a rule that closes in full (stop-loss, time-stop, reversal) triggers
\* for pos on the candle b of index idx
ExitTriggers(pos, b, idx, c) ==
    \/ StopHit(pos, b.price)
    \/ live_time_stop(pos, idx, c)
    \/ live_reverse(pos, b.sig)

\* C12: while trading_disabled is set no entry order is awaited and no tick has
\* opened a position, and at the end of every tick a position that was held
\* before the tick and for which a closing rule triggers on the candle of the
\* tick has been closed, unless its close order failed.
C12_ExitsWhileDisabled ==
    /\ (trading_disabled /\ pending # None) => Get(pending).kind # "entry"
    /\ (TickDone /\ trading_disabled) =>
        /\ \A k \in 1..Len(trace) : trace[k].rule # "open"
        /\ \A s \in DOMAIN positions :
            (/\ positions[s].open_time < i - 1
             /\ bar[s] # None
             /\ ExitTriggers(positions[s], Get(bar[s]), i - 1, cfg))
                => \E k \in 1..Len(trace) : trace[k].rule = "order_error" /\ trace[k].sym = s


\* ---------------------------------------------------------------- C13
\* the step is the failing return of a market order of one of kinds: the handler
\* leaves its await and the exchange has executed nothing
FailedReply(kinds) ==
    /\ pc = "await"
    /\ Get(pending).kind \in kinds
    /\ pending' # pending
    /\ exch' = exch

\* whether ledger qs holds every position of ledger ps with the same stored state
StoredKept(ps, qs) ==
    \A s \in DOMAIN ps :
        /\ s \in DOMAIN qs
        /\ qs[s].qty = ps[s].qty
        /\ qs[s].notional = ps[s].notional
        /\ qs[s].stop_loss = ps[s].stop_loss
        /\ qs[s].tp1 = ps[s].tp1
        /\ qs[s].trailing_stop = ps[s].trailing_stop

\* C13: when the market order of a full close or of a first-target partial
\* close fails, the handler leaves quantity, notional, stop_loss, tp1 and
\* trailing_stop of the position as they were, in the ledger and in the
\* persisted positions map.
C13_FailedExitKeepsState ==
    [][FailedReply({"close", "fraction"})
          => StoredKept(positions, positions') /\ StoredKept(state.positions, state'.positions)]_vars


\* ---------------------------------------------------------------- C14
\* C14: every failing return of a market order (entry, full close, first-target
\* partial close) is followed, before the handler awaits again or ends, by an
\* order-error alert for the instrument of the order.
C14_FailedOrderAlerts ==
    [][FailedReply({"entry", "close", "fraction"})
          => \E k \in (Len(trace) + 1)..Len(trace') :
                 trace'[k].rule = "order_error" /\ trace'[k].sym = Get(pending).sym]_vars


\* ---------------------------------------------------------------- C15
\* C15: the failing return of an entry order leaves the ledger, the persisted
\* positions map, the trade timestamps and the last-open times as they were;
\* a trade timestamp is added and a last-open time is set only by the return of
\* an entry order the exchange has executed, which puts the position in the
\* ledger.
C15_FailedEntryLeavesNoTrace ==
    [][/\ FailedReply({"entry"})
           => /\ positions' = positions
              /\ state'.positions = state.positions
              /\ trade_timestamps' = trade_timestamps
              /\ last_open_time' = last_open_time
       /\ (Len(trade_timestamps') > Len(trade_timestamps) \/ last_open_time' # last_open_time)
           => /\ pc = "await"
              /\ Get(pending).kind = "entry"
              /\ exch' # exch
              /\ Get(pending).sym \in DOMAIN positions'
              /\ Get(pending).sym \notin DOMAIN positions]_vars

\* an entry order has failed on an instrument that was never opened: the tick
\* ends with the alert, no position and no bookkeeping
C15_Witness ==
    /\ pc = "idle"
    /\ \E k \in 1..Len(trace) :
        /\ trace[k].rule = "order_error"
        /\ trace[k].sym \notin DOMAIN positions
        /\ trace[k].sym \notin DOMAIN state.positions
        /\ trace[k].sym \notin DOMAIN last_open_time
    /\ trade_timestamps = <<>>
    /\ exch = [s \in DOMAIN exch |-> 0]


\* ---------------------------------------------------------------- C16
\* the effective cap on the open positions under configuration c
EffectiveCap(c) ==
    IF c.strategy_name \in {"mtf_breakout", "mtf"}
    THEN (IF c.max_positions <= c.mtf_max_pos THEN c.max_positions ELSE c.mtf_max_pos)
    ELSE c.max_positions

\* C16: after every bar of the backtest the open positions number at most the
\* effective cap, min(MAX_OPEN_POSITIONS, MTF_MAX_OPEN_POSITIONS) under the MTF
\* strategy, whichever of the two caps is the lower and however many flat
\* instruments signal an entry on the bar.
C16_BacktestCap ==
    pc \in {"run", "done"} => Cardinality(DOMAIN positions) <= EffectiveCap(cfg)


\* ---------------------------------------------------------------- C17
\* C17: in a live run that starts from a ledger within the effective cap, under
\* every sequence of candles and heartbeats the ledger holds at most
\* min(MAX_OPEN_POSITIONS, MTF_MAX_OPEN_POSITIONS) positions, and an entry order
\* is awaited only while it holds fewer.
C17_LiveCap ==
    pc \in {"idle", "await"} =>
        /\ Cardinality(DOMAIN positions) <= EffectiveCap(cfg)
        /\ (pending # None /\ Get(pending).kind = "entry")
               => Cardinality(DOMAIN positions) < EffectiveCap(cfg)

\* the first tick has opened instrument s and filled the cap; the second tick,
\* of the flat instrument t with an entry signal and trading enabled, has
\* ended without an entry
C17_Witness ==
    /\ pc = "idle"
    /\ i = Warmup + 2
    /\ ~trading_disabled
    /\ state.balances # None
    /\ Cardinality(DOMAIN positions) = EffectiveCap(cfg)
    /\ \E s \in DOMAIN positions, t \in DOMAIN bar \ DOMAIN positions :
        /\ positions[s].open_time = Warmup
        /\ bar[t] # None
        /\ Get(bar[t]).sig \in {"buy", "sell"}
    /\ trace = <<>>


\* ---------------------------------------------------------------- C18
\* the indices of the events the step has added to the trace
NewEvents ==
    IF Len(trace) <= Len(trace') /\ SubSeq(trace', 1, Len(trace)) = trace
    THEN (Len(trace) + 1)..Len(trace')
    ELSE 1..Len(trace')

\* C18: both drivers open a position only on an instrument that is flat: after
\* every step of the backtest, of the candle handler or of the heartbeat, an
\* entry order is awaited only for an instrument the ledger does not hold, and
\* every opening of the step is on an instrument that the ledger did not hold
\* before the step or that the step had closed in full before it.
C18_OnePerInstrument ==
    [][/\ (pending' # None /\ Get(pending').kind = "entry")
           => Get(pending').sym \notin DOMAIN positions'
       /\ \A k \in NewEvents :
           trace'[k].rule = "open"
               => \/ trace'[k].sym \notin DOMAIN positions
                  \/ \E m \in NewEvents :
                         /\ m < k
                         /\ trace'[m].sym = trace'[k].sym
                         /\ trace'[m].rule \in TickRules
                         /\ trace'[m].pos1 = None]_vars

\* a live tick of a held instrument, with a signal on the side of its
\* position and a heartbeat behind, has ended with the position as it was and
\* no order
C18_Witness ==
    /\ pc = "idle"
    /\ i = Warmup + 2
    /\ hb.beats > 0
    /\ trace = <<>>
    /\ \E s \in DOMAIN positions :
        /\ positions[s].open_time = Warmup
        /\ bar[s] # None
        /\ Get(bar[s]).sig = (IF positions[s].side = "long" THEN "buy" ELSE "sell")
        /\ \A t \in DOMAIN bar \ {s} : bar[t] = None


\* ---------------------------------------------------------------- C19
\* whether the stop_loss of q is the one of p or the entry price, and in no case
\* further from the market than the one of p
StopNotLooser(p, q) ==
    p.stop_loss # None =>
        /\ q.stop_loss # None
        /\ q.stop_loss = p.stop_loss \/ q.stop_loss = Some(p.entry_price)
        /\ IF p.side = "long" THEN Get(q.stop_loss) >= Get(p.stop_loss)
           ELSE Get(q.stop_loss) <= Get(p.stop_loss)

StopKept(ps, qs) ==
    \A s \in DOMAIN ps \cap DOMAIN qs : SamePosition(ps[s], qs[s]) => StopNotLooser(ps[s], qs[s])

\* C19: over every step of either driver a position that stays open keeps a
\* stop_loss, which either stays as it was or moves to the entry price, and
\* never moves away from the market: it does not decrease for a long nor
\* increase for a short, in the ledger and in the persisted positions map.
C19_StopNeverLoosens ==
    [][StopKept(positions, positions') /\ StopKept(state.positions, state'.positions)]_vars

\* the first target has moved the stop of a held position from its entry value
\* onto the entry price
C19_Witness ==
    \E k \in 1..Len(trace) :
        /\ trace[k].rule = "tp1"
        /\ trace[k].sym \in DOMAIN positions
        /\ Get(trace[k].pos0).stop_loss # Some(trace[k].entry)
        /\ positions[trace[k].sym].stop_loss = Some(trace[k].entry)
        /\ SamePosition(Get(trace[k].pos0), positions[trace[k].sym])


\* ---------------------------------------------------------------- C20
\* the step is the part of the live tick of instrument s, flat in the ledger,
\* that follows the return of get_balance_usdt
FlatTick(s) ==
    /\ pc = "await"
    /\ Get(pending).kind = "balance"
    /\ Get(pending).sym = s
    /\ s \notin DOMAIN positions
    /\ pending' # pending

ExitRules == TickRules \cup {"liquidation"}

\* C20: the exit checks do nothing for an instrument without a position.  Live,
\* the tick of a flat instrument leaves the ledger, the persisted positions
\* map, the balance, the exchange and the last-open times as they were, adds
\* no trade timestamp, records no exit and awaits no order but an entry order
\* for that instrument.  In the backtest every exit of a bar is on an
\* instrument held before the bar, and a bar that starts with every
\* instrument flat leaves the balance as it was.
C20_FlatExitChecksNoOp ==
    [][/\ \A s \in DOMAIN bar :
           FlatTick(s)
               => /\ \/ pending' = None
                     \/ Get(pending').kind = "entry" /\ Get(pending').sym = s
                  /\ positions' = positions
                  /\ state'.positions = state.positions
                  /\ balance' = balance
                  /\ exch' = exch
                  /\ last_open_time' = last_open_time
                  /\ Len(trade_timestamps') <= Len(trade_timestamps)
                  /\ \A k \in NewEvents : trace'[k].rule \notin ExitRules
       /\ pc = "run"
           => /\ \A k \in NewEvents :
                     trace'[k].rule \in ExitRules => trace'[k].sym \in DOMAIN positions
              /\ positions = <<>> => balance' = balance]_vars

\* a live tick of the flat instrument t, without a signal, has ended while the
\* ledger holds the position it held for s before, as persisted
C20_Witness ==
    /\ pc = "idle"
    /\ i = Warmup + 2
    /\ trace = <<>>
    /\ \E s \in DOMAIN positions, t \in DOMAIN bar \ DOMAIN positions :
        /\ positions[s].open_time = Warmup
        /\ s \in DOMAIN state.positions
        /\ state.positions[s] = positions[s]
        /\ bar[t] # None
        /\ Get(bar[t]).sig = "none"
        /\ exch[t] = 0


\* ---------------------------------------------------------------- C21
\* whether no window of 3600 seconds that ends at a timestamp of tts holds more
\* than n of them
WithinRate(tts, n) ==
    \A k \in 1..Len(tts) : Cardinality({m \in 1..k : tts[k] - tts[m] < 3600}) <= n

\* C21: with MAX_TRADES_PER_HOUR = N > 0, after every step of the live run no
\* window of 3600 seconds holds more than N registered entries, whatever the
\* latency of the orders; a registered entry leaves the list only once it is
\* 3600 seconds older than the tick, so the list holds every entry that a
\* window with a later entry can hold.
C21_TradeRate ==
    [][cfg.max_trades_per_hour > 0
          => /\ WithinRate(trade_timestamps', cfg.max_trades_per_hour)
             /\ \A k \in 1..Len(trade_timestamps) :
                    (\A m \in 1..Len(trade_timestamps') :
                         trade_timestamps'[m] # trade_timestamps[k])
                        => now_ts(i - 1) - trade_timestamps[k] >= 3600]_vars

\* with one trade an hour, an instrument was entered an hour or more after
\* another one, whose timestamp has left the list
C21_Witness ==
    /\ cfg.max_trades_per_hour = 1
    /\ \E s \in DOMAIN last_open_time, t \in DOMAIN last_open_time :
        /\ last_open_time[t] - last_open_time[s] >= 3600
        /\ trade_timestamps = <<last_open_time[t]>>


\* ---------------------------------------------------------------- C22
\* C22: with MIN_REOPEN_INTERVAL_SEC = T > 0, every step of the live run that
\* registers an entry for an instrument that has a last-open time registers it
\* T seconds or more after that time, whether or not the earlier position is
\* closed; the last-open time of an instrument is never removed.
C22_ReentryCooldown ==
    [][cfg.min_reopen > 0
          => \A s \in DOMAIN last_open_time :
                 /\ s \in DOMAIN last_open_time'
                 /\ last_open_time'[s] # last_open_time[s]
                        => last_open_time'[s] - last_open_time[s] >= cfg.min_reopen]_vars

\* with an interval of two candles, an instrument was entered, closed and
\* entered again two candles or more later, the other one never
C22_Witness ==
    /\ cfg.min_reopen = 2 * CandleSeconds
    /\ Len(trade_timestamps) = 2
    /\ trade_timestamps[2] - trade_timestamps[1] >= cfg.min_reopen
    /\ \E s \in DOMAIN positions :
        /\ DOMAIN last_open_time = {s}
        /\ last_open_time[s] = trade_timestamps[2]
        /\ now_ts(positions[s].open_time) <= trade_timestamps[2]
        /\ now_ts(positions[s].open_time) > trade_timestamps[1]


\* ---------------------------------------------------------------- C23
\* C23: a wrapper never retries after an unexpected error: once the wrapped
\* function has raised one, the wrapper raises it to the caller without another
\* attempt, and a wrapper sleeps before a retry only after an error classified
\* as a transport or API error.
C23_UnexpectedNotRetried ==
    rpc # None =>
        /\ Get(rpc).last = "unexpected_error" => Get(rpc).pc = "raised"
        /\ Get(rpc).pc = "sleep" => Get(rpc).last = "api_error"


\* ---------------------------------------------------------------- C24
\* C24: a wrapper invokes the wrapped function at most max_retries times in
\* all, and the wait before retry k is min(base_delay * 2^(k-1), max_delay)
\* plus a jitter of at most the jitter share of that delay.
C24_BoundedRetries ==
    rpc # None =>
        /\ Get(rpc).calls <= Get(rpc).max_retries
        /\ \A k \in 1..Len(Get(rpc).slept) :
            LET w == Get(rpc).slept[k]
            IN  /\ w.delay = Min2(Get(rpc).base_delay * 2 ^ (k - 1), Get(rpc).max_delay)
                /\ w.sleep_for >= w.delay
                /\ 100 * (w.sleep_for - w.delay) <= Get(rpc).jitter_pct * w.delay


\* ---------------------------------------------------------------- C25
\* the fee-adjusted realized PnL of the close e
RealizedPnl(e) ==
    LET sign == IF e.side = "long" THEN 1 ELSE -1
    IN  MNorm((e.exit - e.entry) * e.qty * sign, -((e.entry * e.qty + e.exit * e.qty) * FeeNum))

\* the events of tr that close in full the position p of instrument s
FullCloses(tr, s, p) ==
    {k \in 1..Len(tr) : /\ tr[k].rule # "open"
                        /\ tr[k].sym = s
                        /\ tr[k].pos1 = None
                        /\ SamePosition(Get(tr[k].pos0), p)}

\* C25: over every step of the backtest the balance changes by the sum of the
\* fee-adjusted realized PnL of the closes of the step, one after the other; a
\* position that leaves the ledger during the replay is closed in full exactly
\* once and one that stays is not; and the step that ends the run closes every
\* position still held exactly once, in full, at the last close of its
\* instrument.
C25_AllClosedOnce ==
    [][pc = "run"
          => /\ Len(trace') = 0 => balance' = balance
             /\ Len(trace') > 0
                    => trace'[1].before = balance /\ trace'[Len(trace')].after = balance'
             /\ \A k \in 1..Len(trace') :
                    /\ k > 1 => trace'[k].before = trace'[k - 1].after
                    /\ trace'[k].after =
                           IF trace'[k].rule = "open" THEN trace'[k].before
                           ELSE MAdd(trace'[k].before, RealizedPnl(trace'[k]))
                    /\ trace'[k].rule = "liquidation" => pc' = "done"
             /\ \A s \in DOMAIN positions :
                    LET n == Cardinality(FullCloses(trace', s, positions[s]))
                    IN  IF pc' = "done"
                        THEN /\ n = 1
                             /\ \A k \in FullCloses(trace', s, positions[s]) :
                                    /\ trace'[k].rule = "liquidation"
                                    /\ trace'[k].qty = positions[s].qty
                                    /\ trace'[k].exit = Get(bar[s]).price
                        ELSE IF s \in DOMAIN positions' /\ SamePosition(positions[s], positions'[s])
                        THEN n = 0
                        ELSE n = 1]_vars

\* the run has ended with the liquidation of a position, after closes of the
\* replay that had changed the balance
C25_Witness ==
    /\ pc = "done"
    /\ Len(trace) > 0
    /\ trace[1].rule = "liquidation"
    /\ trace[1].before # Usdt(INITIAL_BALANCE_USDT)
    /\ balance = trace[Len(trace)].after

\* ---------------------------------------------------------------- C26

SameDecision(p, q) ==
    /\ p.side = q.side
    /\ p.stop_loss = q.stop_loss
    /\ p.tp1 = q.tp1
    /\ p.trailing_stop = q.trailing_stop

\* C26: fed the same (price, ATR, signal) ticks with every order filled and no
\* guard tripped, the live ledger after each tick has a position exactly where
\* the backtest's has one, with the same side, stop, first target and trailing
\* stop, and the same quantity whenever both sized from the same equity
C26_SameDecisions ==
    pc = "lockstep"
        => /\ DOMAIN twin.positions = DOMAIN positions
           /\ \A s \in DOMAIN positions \cap DOMAIN twin.positions :
                  /\ SameDecision(twin.positions[s], positions[s])
                  /\ twin.exact => twin.positions[s].qty = positions[s].qty

\* ---------------------------------------------------------------- C27

SameStored(p, q) ==
    /\ p.qty = q.qty
    /\ p.notional = q.notional
    /\ p.stop_loss = q.stop_loss
    /\ p.tp1 = q.tp1
    /\ p.trailing_stop = q.trailing_stop

\* C27: when the candle handler has returned, the persisted positions map has
\* an entry exactly for the instruments of the in-memory ledger, with the same
\* quantity, notional, stop, first target and trailing stop; this includes the
\* ticks that tightened the trailing stop and the ticks whose close order failed
C27_PersistedEqualsLedger ==
    pc = "idle"
        => /\ DOMAIN state.positions = DOMAIN positions
           /\ \A s \in DOMAIN positions : SameStored(state.positions[s], positions[s])

\* a tick has ended with a failed close order on a position that trails
C27_Witness ==
    /\ pc = "idle"
    /\ \E k \in 1..Len(trace) :
           /\ trace[k].rule = "order_error"
           /\ trace[k].sym \in DOMAIN positions
           /\ positions[trace[k].sym].trailing_stop # None
           /\ state.positions[trace[k].sym].trailing_stop = positions[trace[k].sym].trailing_stop

\* ---------------------------------------------------------------- C28

\* C28: whatever step of a save fails or is cut by a crash, the state file is
\* missing (as before the first save) or holds one complete payload, the one it
\* held when the save began or the one being saved, and the save has raised
\* nothing to its caller
C28_AtomicSave ==
    pc = "save"
        => /\ disk.file \in {disk.previous, Some(Serial(disk.payload))}
           /\ disk.file # None => \E n \in Payloads : disk.file = Some(Serial(n))
           /\ ~disk.raised

\* a save over an existing payload was cut after a part of the new payload
\* had been written
C28_Witness ==
    /\ pc = "save"
    /\ disk.pc \in {"idle", "crashed"}
    /\ disk.file # None
    /\ disk.tmp # None
    /\ Len(Get(disk.tmp)) \in 1..(Chunks - 1)
    /\ Get(disk.tmp)[1] # Get(disk.file)[1]

\* ---------------------------------------------------------------- C29

LedgerQty(ps, s) == IF s \in DOMAIN ps THEN ps[s].qty ELSE 0

Distance(a, b) == IF a >= b THEN a - b ELSE b - a

\* C29: every quantity the live runner hands to create_market_order, for an
\* entry, the partial close at the first target or a full close, is a whole
\* number of lot steps, so _adjust_qty returns it as it is, and when the order
\* is executed the exchange position and the ledger both change by the
\* quantity sent
C29_WholeSteps ==
    [][/\ (pending' # None /\ Get(pending').kind # "balance")
            => adjust_qty(Get(pending').qty) = Get(pending').qty
       /\ (pc = "await" /\ Get(pending).kind # "balance" /\ exch' # exch)
            => LET s == Get(pending).sym
               IN  /\ Distance(exch'[s], exch[s]) = Get(pending).qty
                   /\ Distance(LedgerQty(positions', s), LedgerQty(positions, s))
                          = Get(pending).qty]_vars

\* ---------------------------------------------------------------- C30

TornDown ==
    /\ sd.stream = "finished"
    /\ sd.beat = "finished" \/ "beat" \in sd.cancel
    /\ sd.ws # "open"
    /\ sd.session # "open"
    /\ sd.broker # "open"
    /\ sd.notified

\* C30: once SIGINT or SIGTERM has arrived and the tasks have been cancelled,
\* eventually the stream task has stopped, the heartbeat is cancelled, the
\* websocket, the session and the broker connection have been closed and the
\* bot-stopped notification has been attempted
C30_ShutdownCompletes ==
    (pc = "shutdown" /\ sd.signals > 0) ~> TornDown

\* ---------------------------------------------------------------- C31

\* the waits since the last successful connect: the first is reconnect_delay,
\* each next one the double of the one before, capped at max_reconnect_delay
BackoffShape(ws) ==
    \A k \in 1..Len(ws) :
        /\ ws[k] <= MAX_RECONNECT_DELAY
        /\ ws[k] = IF k = 1 THEN RECONNECT_DELAY
                   ELSE IF 2 * ws[k - 1] > MAX_RECONNECT_DELAY THEN MAX_RECONNECT_DELAY
                   ELSE 2 * ws[k - 1]

\* C31: the waits before the reconnects start at reconnect_delay, double up
\* to max_reconnect_delay and start again after a successful connect; every
\* wait is followed by a new connection attempt unless stop() comes first;
\* after stop() no connection is attempted and no wait begins, and the loop
\* ends
C31_ReconnectBackoff ==
    /\ [](pc = "stream" => BackoffShape(stream.waits))
    /\ [][stream.stopped => /\ stream'.connects = stream.connects
                            /\ stream'.waits = stream.waits]_vars
    /\ (pc = "stream" /\ stream.pc = "sleep") ~> (stream.pc \in {"connect", "finished"})
    /\ (pc = "stream" /\ stream.stopped) ~> (stream.pc = "finished")

\* the wait has reached the cap and stayed there
C31_Witness ==
    /\ pc = "stream"
    /\ Len(stream.waits) >= 2
    /\ stream.waits[Len(stream.waits)] = MAX_RECONNECT_DELAY
    /\ stream.waits[Len(stream.waits) - 1] = MAX_RECONNECT_DELAY

\* ---------------------------------------------------------------- C32

\* C32: when a kline callback raises, or json.loads rejects a frame, the read
\* loop stays on the same connection and waits for the next frame: no wait
\* begins, no connection is attempted and the task does not end
C32_FailureAbsorbed ==
    [][(/\ pc = "stream"
        /\ Len(stream'.log) = Len(stream.log) + 1
        /\ stream'.log[Len(stream'.log)] \in {"raised", "bad_json"})
          => /\ stream'.pc = "read"
             /\ stream'.connects = stream.connects
             /\ stream'.waits = stream.waits]_vars

\* on one connection a callback has raised and a later frame was dispatched
C32_Witness ==
    /\ pc = "stream"
    /\ \E j, k \in 1..Len(stream.log) :
           /\ j < k
           /\ stream.log[j] = "raised"
           /\ stream.log[k] = "dispatched"
           /\ \A n \in j..k : stream.log[n] # "connected"

\* ---------------------------------------------------------------- C33

\* C33: signal returns None whenever a value it requires on the last bar (LTF
\* close, volume, RSI, ATR, or HTF EMA20, EMA50, EMA200, ATR, ADX, RSI,
\* SMA_TREND) is missing or NaN
C33_DefectGivesNone ==
    (pc = "signal" /\ probe # None /\ Get(probe).defect # "none")
        => Get(probe).result = "none"


\* ---------------------------------------------------------------- C34

LongConditions(x) ==
    /\ x.ema20 > x.ema50 /\ x.ema50 > x.ema200
    /\ x.close * PctDen > x.range_high * (PctDen + BREAKOUT_BUFFER_PCT)
    /\ IsNum(x.rsi) /\ rsi_band(x).long_min <= x.rsi /\ x.rsi <= rsi_band(x).long_max

ShortConditions(x) ==
    /\ x.ema20 < x.ema50 /\ x.ema50 < x.ema200
    /\ x.close * PctDen < x.range_low * (PctDen - BREAKOUT_BUFFER_PCT)
    /\ IsNum(x.rsi) /\ rsi_band(x).short_min <= x.rsi /\ x.rsi <= rsi_band(x).short_max

EarlierFiltersPass(x) ==
    x.n >= MinHistory /\ htf_filters_pass(x) /\ ltf_filters_pass(x)

\* C34: signal returns "buy" only if HTF EMA20 > EMA50 > EMA200, the close is
\* above the long trigger and the LTF RSI is in the adaptive long band, and
\* "sell" only under the mirrored conditions; on a complete row that passes
\* every earlier filter each set of conditions also suffices, and when
\* neither holds the result is None
C34_SignalConditions ==
    (pc = "signal" /\ probe # None) =>
        LET x == Get(probe).input
            r == Get(probe).result
        IN  /\ r = "buy" => LongConditions(x)
            /\ r = "sell" => ShortConditions(x)
            /\ r \in {"buy", "sell", "none"}
            /\ Get(probe).defect = "none" /\ EarlierFiltersPass(x) =>
                  /\ LongConditions(x) => r = "buy"
                  /\ ShortConditions(x) => r = "sell"

C34_Witness ==
    /\ pc = "signal" /\ probe # None
    /\ Get(probe).defect = "none"
    /\ Get(probe).result = "buy"
    /\ EarlierFiltersPass(Get(probe).input)
    /\ rsi_band(Get(probe).input).long_min # MTF_RSI_LONG_MIN


\* ---------------------------------------------------------------- C35

\* the place of an exit rule in the order of the drivers
RuleRank(rule) ==
    CASE rule = "stop_loss" -> 1
      [] rule = "tp1" -> 2
      [] rule = "trailing_stop" -> 3
      [] rule = "time_stop" -> 4
      [] rule = "reverse_signal" -> 5
      [] OTHER -> 0

\* the events of exit rules that the tick has recorded for instrument s
ExitEvents(s) == {k \in 1..Len(trace) : trace[k].sym = s /\ trace[k].rule \in TickRules}

\* whether price is at or beyond the trailing stop of pos
TrailHit(pos, price) ==
    /\ pos.trailing_stop # None
    /\ IF pos.side = "long" THEN price <= Get(pos.trailing_stop)
       ELSE price >= Get(pos.trailing_stop)

\* whether pos has reached the maximum age at the bar of index idx
TimeStopDue(pos, idx, c) == c.mtf_max_bars > 0 /\ idx - pos.open_time >= c.mtf_max_bars

\* whether the signal sig is against the side of pos
Reversal(pos, sig) ==
    (pos.side = "long" /\ sig = "sell") \/ (pos.side = "short" /\ sig = "buy")

\* whether the rule of rank r that closes in full triggers for the position of
\* the k-th event of the tick: the stop-loss on the position as the tick found
\* it, the later rules on the position as the event found it
TriggersBefore(k, r) ==
    LET s == trace[k].sym
        first == CHOOSE m \in ExitEvents(s) : \A n \in ExitEvents(s) : m <= n
        b == Get(bar[s])
    IN  CASE r = 1 -> StopHit(Get(trace[first].pos0), b.price)
          [] r = 3 -> TrailHit(Get(trace[k].pos0), b.price)
          [] r = 4 -> TimeStopDue(Get(trace[k].pos0), i - 1, cfg)
          [] OTHER -> FALSE

\* C35: in both drivers, at the end of every tick: the exit rules that acted on
\* an instrument acted in the order stop-loss, TP1, trailing stop, time-stop,
\* reversal; no exit rule acted after a full close; the rule that closed is
\* the earliest rule of that order that triggered (live: its name is the
\* reason of the close); and after a TP1 the later rules were still evaluated:
\* a position that is still held after a TP1 of the tick triggers none of them
\* (live: unless the order of a later close failed)
C35_ExitOrder ==
    TickDone =>
        \A s \in DOMAIN bar :
            /\ \A k, m \in ExitEvents(s) :
                   k < m => /\ RuleRank(trace[k].rule) < RuleRank(trace[m].rule)
                            /\ trace[k].pos1 # None
            /\ \A k \in ExitEvents(s) :
                   trace[k].pos1 = None =>
                       \A r \in {1, 3, 4} :
                           r < RuleRank(trace[k].rule) => ~TriggersBefore(k, r)
            /\ (/\ \E k \in ExitEvents(s) : trace[k].rule = "tp1"
                /\ s \in DOMAIN positions
                /\ \A k \in 1..Len(trace) : trace[k].rule # "order_error")
                   => /\ ~TrailHit(positions[s], Get(bar[s]).price)
                      /\ ~TimeStopDue(positions[s], i - 1, cfg)
                      /\ ~Reversal(positions[s], Get(bar[s]).sig)

\* a tick in which two closing rules triggered has closed by the earlier one
C35_Witness ==
    /\ TickDone
    /\ \E k \in 1..Len(trace) :
        /\ trace[k].rule = "stop_loss"
        /\ trace[k].pos1 = None
        /\ Reversal(Get(trace[k].pos0), Get(bar[trace[k].sym]).sig)


\* ---------------------------------------------------------------- C36

\* whether the multi-timeframe strategy is the configured one
MtfActive(c) == c.strategy_name \in {"mtf_breakout", "mtf"}

\* C36: in both drivers, at the end of every tick: a position that the tick
\* has left in the ledger, on a candle the exit rules were evaluated on, is
\* younger than MTF_MAX_BARS_IN_POSITION bars when the multi-timeframe strategy
\* is active and the limit is above 0 (live: unless a close order failed); and
\* no time-stop has closed a position when another strategy name is configured
\* or the limit is 0
C36_TimeStop ==
    TickDone =>
        /\ \A s \in DOMAIN positions :
               (/\ MtfActive(cfg) /\ cfg.mtf_max_bars > 0
                /\ bar[s] # None /\ Get(bar[s]).atr > 0
                /\ positions[s].open_time < i - 1
                /\ \A k \in 1..Len(trace) : trace[k].rule # "order_error")
                   => (i - 1) - positions[s].open_time < cfg.mtf_max_bars
        /\ \A k \in 1..Len(trace) :
               trace[k].rule = "time_stop" => MtfActive(cfg) /\ cfg.mtf_max_bars > 0


\* ---------------------------------------------------------------- C37

\* (X - E) * q * sign(side) - (E * q + X * q) * fee_rate for the close that the
\* event ev records
NetPnl(ev) ==
    LET gross == (ev.exit - ev.entry) * ev.qty * (IF ev.side = "long" THEN 1 ELSE -1)
        fee == MNorm(0, (ev.entry * ev.qty + ev.exit * ev.qty) * FeeNum)
    IN  MSub(MInt(gross), fee)

\* the sum of NetPnl over the events of tr with indices in ks
RECURSIVE SumNetPnl(_, _)
SumNetPnl(tr, ks) ==
    IF ks = {} THEN MZero
    ELSE LET k == CHOOSE n \in ks : TRUE
         IN  MAdd(NetPnl(tr[k]), SumNetPnl(tr, ks \ {k}))

\* C37: live: every step adds to the persisted realized_pnl the net result
\* (X - E) * q * sign - (E * q + X * q) * fee_rate of every close it has
\* performed, TP1 partial closes as well as full closes, so that realized_pnl
\* is the sum of these over all closes of the run
C37_RealizedPnl ==
    [][LET closes == {k \in NewEvents : trace'[k].rule \in TickRules /\ trace'[k].qty > 0}
       IN  MInt(state'.realized_pnl) = MAdd(MInt(state.realized_pnl), SumNetPnl(trace', closes))]_vars


\* ---------------------------------------------------------------- C38

\* the step is the comparison of a heartbeat
HeartbeatCompares == hb.pc = "fetched" /\ hb'.pc = "sleep"

\* the instruments the exchange holds once the order call, awaited with the
\* ledger as it is, has been executed
AfterOrder(call) ==
    IF call.kind = "entry" THEN local_syms(positions) \cup {call.sym}
    ELSE IF call.kind = "close" THEN local_syms(positions) \ {call.sym}
    ELSE local_syms(positions)

\* C38: a heartbeat that compares while a candle tick awaits an order which the
\* exchange has executed, and whose query has returned the positions of the
\* exchange with that order in them, the ledger update still pending, does
\* not set trading_disabled
C38_InFlightOrder ==
    [][(/\ HeartbeatCompares
        /\ pc = "await"
        /\ Get(pending).kind # "balance"
        /\ Get(pending).executed
        /\ hb.fetched # None
        /\ Get(hb.fetched) = AfterOrder(Get(pending)))
           => trading_disabled' = trading_disabled]_vars

\* ---------------------------------------------------------------- C39

\* C39: a heartbeat whose query of the positions of the exchange has failed
\* leaves trading_disabled as it was, whatever the ledger holds
C39_FailedQuery ==
    [][(HeartbeatCompares /\ hb.fetched = None)
           => trading_disabled' = trading_disabled]_vars


\* ---------------------------------------------------------------- C40

\* C40: the ledger that LiveRunner.start rebuilds from the state file after a
\* restart holds exactly the instruments of the ledger at the last state write
\* of the run that ended, each with every field equal; an instrument whose
\* position had been deleted is not in it
C40_RestoreRoundTrip ==
    [][probe' # probe =>
          /\ DOMAIN positions' = DOMAIN positions
          /\ \A s \in DOMAIN positions : positions'[s] = positions[s]
          /\ \A s \in DOMAIN bar : s \notin DOMAIN state.positions => s \notin DOMAIN positions']_vars

\* a restart has restored a position that a first target had left with a
\* trailing stop
C40_Witness ==
    /\ probe # None
    /\ pc = "idle" /\ trace = <<>>
    /\ \E s \in DOMAIN Get(probe).file :
        /\ s \in DOMAIN positions
        /\ Get(probe).file[s].trailing_stop.t = "num"
        /\ positions[s].trailing_stop = Some(Get(probe).file[s].trailing_stop.n)
        /\ positions[s].tp1 = None

====
